---- MODULE Spec2Model ----
(***************************************************************************)
(* A model of the HAMQTT device layer (src/src/hamqtt_device.c) and of the *)
(* two components it drives (hamqtt_button.c, hamqtt_binary_sensor.c).     *)
(*                                                                         *)
(* Two contexts run: the application context (add_component, connect) and  *)
(* the bus-event context (the MQTT client's event handler).  C strings are *)
(* sequences of one-character strings, so that snprintf's truncation and   *)
(* strcmp's comparison are computed, not assumed.                          *)
(***************************************************************************)
EXTENDS Integers, Sequences, FiniteSets, TLC

(* ------------------------------------------------------------------ *)
(* Bounds of the model                                                 *)
(* ------------------------------------------------------------------ *)

\* Capacity of the component array.  The source sets 16 (a build-time
\* configuration value); the model scales it down and every statement about
\* it is made relative to this name.
HAMQTT_DEVICE_MAX_COMPONENTS == 2

\* How many hamqtt_device_connect calls the application makes.
MaxConnects == 2

\* How many CONNECTED events the started clients deliver during and after
\* one connect call.
MaxConnEvents == 2

\* How many update calls are made on one component.
MaxTicks == 3

(* ------------------------------------------------------------------ *)
(* Program constants                                                   *)
(* ------------------------------------------------------------------ *)

HAMQTT_CHAR_BUF_SIZE == 64

(* ------------------------------------------------------------------ *)
(* C strings                                                           *)
(* ------------------------------------------------------------------ *)

\* The absent string (a NULL char pointer).  No real string equals it: its
\* only element is not a single character.
NULL == <<"(null)">>

\* The terminating byte, when it occurs inside received data.
NUL == "NUL"

Rep(c, n) == [i \in 1..n |-> c]

Min(a, b) == IF a < b THEN a ELSE b

\* snprintf(buf, size, ...): the formatted text is cut to size-1 characters.
snprintf(size, text) == SubSeq(text, 1, Min(Len(text), size - 1))

\* What strcmp, strlen and %s see of a zero-filled buffer: the bytes before
\* the first terminating byte.
CStr(buf) ==
    LET ends == {i \in 1..Len(buf) : buf[i] = NUL}
    IN  IF ends = {} THEN buf
        ELSE SubSeq(buf, 1, (CHOOSE i \in ends : \A j \in ends : i <= j) - 1)

\* strcmp(a, b) == 0
strcmp_eq(a, b) == CStr(a) = CStr(b)

S_homeassistant == <<"h","o","m","e","a","s","s","i","s","t","a","n","t">>
S_device == <<"/","d","e","v","i","c","e","/">>
S_config == <<"/","c","o","n","f","i","g">>
S_availability == <<"/","a","v","a","i","l","a","b","i","l","i","t","y">>
S_press == <<"/","p","r","e","s","s">>
S_state == <<"/","s","t","a","t","e">>
S_slash == <<"/">>
S_online == <<"o","n","l","i","n","e">>
S_offline == <<"o","f","f","l","i","n","e">>
S_PRESS == <<"P","R","E","S","S">>
S_press_lower == <<"p","r","e","s","s">>
S_node1 == <<"n","o","d","e","1">>
S_uri == <<"m","q","t","t",":","/","/","h">>
S_b1 == <<"b","1">>
S_s1 == <<"s","1">>
S_s2 == <<"s","2">>
S_b3 == <<"b","3">>
S_s3 == <<"s","3">>
S_ON == <<"O","N">>
S_OFF == <<"O","F","F">>

\* A device unique id long enough that "<prefix>/device/<id>/config" does not
\* fit the config topic buffer.
S_long_id == Rep("L", 36)

\* A button unique id for which "node1/<id>/press" fills a topic buffer
\* exactly (HAMQTT_CHAR_BUF_SIZE - 1 characters).
S_wide_id == Rep("k", HAMQTT_CHAR_BUF_SIZE - 1 - Len(S_node1) - 1 - Len(S_press))

(* ------------------------------------------------------------------ *)
(* Error codes                                                         *)
(* ------------------------------------------------------------------ *)

ESP_OK == "ESP_OK"
ESP_FAIL == "ESP_FAIL"
ESP_ERR_NO_MEM == "ESP_ERR_NO_MEM"
ESP_ERR_INVALID_ARG == "ESP_ERR_INVALID_ARG"
ESP_ERR_INVALID_STATE == "ESP_ERR_INVALID_STATE"
NoResult == "none"

(* ------------------------------------------------------------------ *)
(* Device configuration                                                *)
(* ------------------------------------------------------------------ *)

hamqtt_device_config_default ==
    [ mqtt_config_topic_prefix |-> S_homeassistant,
      mqtt_uri |-> NULL, mqtt_username |-> NULL, mqtt_password |-> NULL,
      manufacturer |-> NULL, model |-> NULL, serial_number |-> NULL,
      unique_id |-> NULL, sw_version |-> NULL, hw_version |-> NULL,
      origin_url |-> NULL,
      name |-> <<"E","S","P","3","2"," ","D","e","v","i","c","e">> ]

\* The configurations a caller hands to hamqtt_device_create: a complete one,
\* one with a long unique id, and one for each missing required field.
DeviceConfigs ==
    LET ok == [hamqtt_device_config_default EXCEPT
                 !.mqtt_uri = S_uri, !.unique_id = S_node1,
                 !.sw_version = <<"1">>, !.manufacturer = <<"m">>]
    IN  { ok,
          [ok EXCEPT !.unique_id = S_long_id],
          [ok EXCEPT !.mqtt_config_topic_prefix = NULL],
          [ok EXCEPT !.mqtt_uri = NULL],
          [ok EXCEPT !.unique_id = NULL],
          [ok EXCEPT !.name = NULL] }

hamqtt_device_is_config_valid_always(cfg) == TRUE

hamqtt_device_is_config_valid(cfg) ==
    /\ cfg.mqtt_config_topic_prefix # NULL
    /\ cfg.mqtt_uri # NULL
    /\ cfg.unique_id # NULL
    /\ cfg.name # NULL

(* ------------------------------------------------------------------ *)
(* JSON builder (cJSON): an object is the ordered list of its members  *)
(* ------------------------------------------------------------------ *)

cJSON_CreateObject == <<>>

cJSON_AddStringToObject(obj, key, str) == Append(obj, [k |-> key, v |-> str])

cJSON_AddBoolToObject(obj, key, b) ==
    Append(obj, [k |-> key, v |-> IF b THEN <<"true">> ELSE <<"false">>])

cJSON_AddNumberToObject(obj, key, n) ==
    Append(obj, [k |-> key, v |-> <<"#", ToString(n)>>])

\* if (value) cJSON_AddStringToObject(obj, key, value);
AddStringIfPresent(obj, key, str) ==
    IF str # NULL THEN cJSON_AddStringToObject(obj, key, str) ELSE obj

(* ------------------------------------------------------------------ *)
(* Components                                                          *)
(* ------------------------------------------------------------------ *)

\* The component objects the application has created.  b1 and b2 are
\* buttons, s1 is a binary sensor; b2's unique id is the wide one.
Pool == {"b1", "b2", "s1"}

\* The component objects exercised on their own, outside a device: those of
\* the pool; s2, a binary sensor whose force_update flag is set; b3, a button,
\* and s3, a binary sensor, whose configurations the application has cleared
\* a required field of after creating them (the objects keep a pointer to the
\* configuration, and their create functions refuse an incomplete one).
Objects == Pool \cup {"s2", "b3", "s3"}

\* The component objects the message router is exercised with: those of the
\* pool and b4, a second button the application has created with the unique
\* id of b1.
RouterPool == Pool \cup {"b4"}

\* The component objects created without their callback: b5, a button
\* created with a NULL on_press_func, and s4, a binary sensor created with a
\* NULL get_state_func (the create functions do not test the callback).
Uninjected == {"b5", "s4"}

\* The component objects the calls are made on to tell a missing callback
\* from a present one.
CallbackObjects == {"b1", "s1"} \cup Uninjected

\* The absent component (a NULL HAMQTT_Component pointer).
NoComponent == "null"

\* What an array slot holds before anything is stored in it.
Uninit == "uninit"

IsButton(c) == c \in {"b1", "b2", "b3", "b4", "b5"}

hamqtt_button_config_default ==
    [ device_class |-> NULL, enabled_by_default |-> TRUE, entity_picture |-> NULL,
      icon |-> NULL,
      name |-> <<"E","S","P","3","2"," ","B","u","t","t","o","n">>,
      unique_id |-> NULL ]

hamqtt_binary_sensor_config_default ==
    [ device_class |-> NULL, enabled_by_default |-> TRUE, entity_picture |-> NULL,
      expire_after |-> -1, force_update |-> FALSE, icon |-> NULL,
      name |-> <<"E","S","P","3","2"," ","B","i","n","a","r","y"," ",
                 "S","e","n","s","o","r">>,
      off_delay |-> -1, unique_id |-> NULL ]

\* component_config of each object.
component_config(c) ==
    CASE c = "b1" -> [hamqtt_button_config_default EXCEPT !.unique_id = S_b1]
      [] c = "b2" -> [hamqtt_button_config_default EXCEPT
                        !.unique_id = S_wide_id, !.icon = <<"i">>]
      [] c = "s1" -> [hamqtt_binary_sensor_config_default EXCEPT
                        !.unique_id = S_s1, !.expire_after = 5]
      [] c = "s2" -> [hamqtt_binary_sensor_config_default EXCEPT
                        !.unique_id = S_s2, !.force_update = TRUE]
      [] c = "b3" -> [hamqtt_button_config_default EXCEPT !.unique_id = NULL]
      [] c = "b4" -> [hamqtt_button_config_default EXCEPT !.unique_id = S_b1]
      [] c = "b5" -> [hamqtt_button_config_default EXCEPT !.unique_id = S_b1]
      [] c = "s4" -> [hamqtt_binary_sensor_config_default EXCEPT !.unique_id = S_s1]
      [] c = "s3" -> [hamqtt_binary_sensor_config_default EXCEPT
                        !.unique_id = S_s3, !.name = NULL]

\* component_config of each object as it was when the object was created.
component_config_at_create(c) ==
    CASE c = "b3" -> [hamqtt_button_config_default EXCEPT !.unique_id = S_b3]
      [] c = "s3" -> [hamqtt_binary_sensor_config_default EXCEPT !.unique_id = S_s3]
      [] OTHER -> component_config(c)

\* Every object being given its callback at create.
has_callback_always(c) == TRUE

\* on_press_func / get_state_func is present: for every object but those
\* created without it.
has_callback(c) == c \notin Uninjected

\* A subscribed_topics[0] pointer: absent, pointing to the live command
\* topic, or still pointing to a released one.
NullPtr == [st |-> "null", s |-> NULL]
LivePtr(str) == [st |-> "live", s |-> str]
DanglingPtr(str) == [st |-> "dangling", s |-> str]

\* The state of a component after its create function (calloc).  blocks is
\* the number of topic strings malloc'ed for the component and not freed;
\* freed tells that the component itself has been freed.
component_created ==
    [ topic |-> NULL, sub0 |-> NullPtr,
      has_sent_state |-> FALSE, previous_state |-> FALSE,
      blocks |-> 0, freed |-> FALSE ]

\* The release of the old topic string left out.
free_topic_skipped(st) == st

\* if (button->command_topic) free(button->command_topic); and the same
\* statement on a binary sensor's state_topic.
free_topic(st) == IF st.topic # NULL THEN [st EXCEPT !.blocks = @ - 1] ELSE st

\* hamqtt_button_destroy / hamqtt_binary_sensor_destroy on a component.
hamqtt_component_destroy(st) == [free_topic(st) EXCEPT !.freed = TRUE]

\* The button's check of its configuration left out.
hamqtt_button_is_config_valid_unchecked(cfg) == TRUE

hamqtt_button_is_config_valid(cfg) == cfg.name # NULL /\ cfg.unique_id # NULL

hamqtt_binary_sensor_is_config_valid(cfg) == cfg.name # NULL /\ cfg.unique_id # NULL

\* snprintf(command_topic, size, "%s/%s/press", ...) into a buffer malloc'ed
\* with exactly the size of the text.
button_command_topic(device_unique_id, unique_id) ==
    LET text == device_unique_id \o S_slash \o unique_id \o S_press
    IN  snprintf(Len(device_unique_id) + Len(unique_id) + 1 + 6 + 1, text)

binary_sensor_state_topic(device_unique_id, unique_id) ==
    LET text == device_unique_id \o S_slash \o unique_id \o S_state
    IN  snprintf(Len(device_unique_id) + Len(unique_id) + 1 + 6 + 1, text)

\* The button's discovery configuration with the command topic built onto the
\* topic derived before.
hamqtt_button_get_discovery_config_appending(st, cfg, device_unique_id, malloc_ok) ==
    IF ~hamqtt_button_is_config_valid(cfg)
    THEN [err |-> ESP_ERR_INVALID_STATE, st |-> st, json |-> cJSON_CreateObject]
    ELSE IF ~malloc_ok
    THEN \* the old topic is freed, command_topic is NULL, subscribed_topics[0]
         \* keeps the old pointer
         [ err |-> ESP_ERR_NO_MEM,
           st |-> [free_topic(st) EXCEPT
                             !.topic = NULL,
                             !.sub0 = IF st.sub0.st = "null" THEN NullPtr
                                      ELSE DanglingPtr(st.sub0.s)],
           json |-> cJSON_CreateObject ]
    ELSE LET topic == IF st.topic = NULL
                      THEN button_command_topic(device_unique_id, cfg.unique_id)
                      ELSE st.topic \o S_press
             j1 == cJSON_AddStringToObject(cJSON_CreateObject, "p", <<"button">>)
             j2 == cJSON_AddStringToObject(j1, "name", cfg.name)
             j3 == cJSON_AddStringToObject(j2, "command_topic", topic)
             j4 == cJSON_AddStringToObject(j3, "unique_id", cfg.unique_id)
             j5 == cJSON_AddBoolToObject(j4, "enabled_by_default", cfg.enabled_by_default)
             j6 == AddStringIfPresent(j5, "device_class", cfg.device_class)
             j7 == AddStringIfPresent(j6, "entity_picture", cfg.entity_picture)
             j8 == AddStringIfPresent(j7, "icon", cfg.icon)
         IN  [ err |-> ESP_OK,
               st |-> [free_topic(st) EXCEPT !.topic = topic, !.sub0 = LivePtr(topic),
                                             !.blocks = @ + 1],
               json |-> j8 ]

\* hamqtt_button_get_discovery_config: [err, st, json].  malloc_ok is the
\* outcome of the malloc of the command topic.
hamqtt_button_get_discovery_config(st, cfg, device_unique_id, malloc_ok) ==
    IF ~hamqtt_button_is_config_valid(cfg)
    THEN [err |-> ESP_ERR_INVALID_STATE, st |-> st, json |-> cJSON_CreateObject]
    ELSE IF ~malloc_ok
    THEN \* the old topic is freed, command_topic is NULL, subscribed_topics[0]
         \* keeps the old pointer
         [ err |-> ESP_ERR_NO_MEM,
           st |-> [free_topic(st) EXCEPT
                             !.topic = NULL,
                             !.sub0 = IF st.sub0.st = "null" THEN NullPtr
                                      ELSE DanglingPtr(st.sub0.s)],
           json |-> cJSON_CreateObject ]
    ELSE LET topic == button_command_topic(device_unique_id, cfg.unique_id)
             j1 == cJSON_AddStringToObject(cJSON_CreateObject, "p", <<"button">>)
             j2 == cJSON_AddStringToObject(j1, "name", cfg.name)
             j3 == cJSON_AddStringToObject(j2, "command_topic", topic)
             j4 == cJSON_AddStringToObject(j3, "unique_id", cfg.unique_id)
             j5 == cJSON_AddBoolToObject(j4, "enabled_by_default", cfg.enabled_by_default)
             j6 == AddStringIfPresent(j5, "device_class", cfg.device_class)
             j7 == AddStringIfPresent(j6, "entity_picture", cfg.entity_picture)
             j8 == AddStringIfPresent(j7, "icon", cfg.icon)
         IN  [ err |-> ESP_OK,
               st |-> [free_topic(st) EXCEPT !.topic = topic, !.sub0 = LivePtr(topic),
                                             !.blocks = @ + 1],
               json |-> j8 ]

\* hamqtt_binary_sensor_get_discovery_config: [err, st, json].
hamqtt_binary_sensor_get_discovery_config(st, cfg, device_unique_id, malloc_ok) ==
    IF ~hamqtt_binary_sensor_is_config_valid(cfg)
    THEN [err |-> ESP_ERR_INVALID_STATE, st |-> st, json |-> cJSON_CreateObject]
    ELSE IF ~malloc_ok
    THEN [ err |-> ESP_ERR_NO_MEM, st |-> [free_topic(st) EXCEPT !.topic = NULL],
           json |-> cJSON_CreateObject ]
    ELSE LET topic == binary_sensor_state_topic(device_unique_id, cfg.unique_id)
             j1 == cJSON_AddStringToObject(cJSON_CreateObject, "p", <<"binary_sensor">>)
             j2 == cJSON_AddStringToObject(j1, "name", cfg.name)
             j3 == cJSON_AddStringToObject(j2, "state_topic", topic)
             j4 == cJSON_AddStringToObject(j3, "unique_id", cfg.unique_id)
             j5 == cJSON_AddBoolToObject(j4, "enabled_by_default", cfg.enabled_by_default)
             j6 == cJSON_AddBoolToObject(j5, "force_update", cfg.force_update)
             j7 == AddStringIfPresent(j6, "device_class", cfg.device_class)
             j8 == AddStringIfPresent(j7, "entity_picture", cfg.entity_picture)
             j9 == AddStringIfPresent(j8, "icon", cfg.icon)
             j10 == IF cfg.expire_after # -1
                    THEN cJSON_AddNumberToObject(j9, "expire_after", cfg.expire_after)
                    ELSE j9
             j11 == IF cfg.off_delay # -1
                    THEN cJSON_AddNumberToObject(j10, "off_delay", cfg.off_delay)
                    ELSE j10
         IN  [ err |-> ESP_OK,
               st |-> [free_topic(st) EXCEPT !.topic = topic, !.blocks = @ + 1],
               json |-> j11 ]

\* The dispatch helpers of hamqtt_component.c (through the v-table).
hamqtt_component_get_discovery_config(c, st, device_unique_id, malloc_ok) ==
    IF IsButton(c)
    THEN hamqtt_button_get_discovery_config(st, component_config(c), device_unique_id, malloc_ok)
    ELSE hamqtt_binary_sensor_get_discovery_config(st, component_config(c), device_unique_id, malloc_ok)

\* get_unique_id returning the display name instead of the unique id.
hamqtt_component_get_name(c) == component_config(c).name

hamqtt_component_get_unique_id(c) == component_config(c).unique_id

\* The list of topic pointers a component reports: a button always reports
\* one (its subscribed_topics[0], whatever it holds), a binary sensor none.
hamqtt_component_get_subscribed_topics(c, st) ==
    IF IsButton(c) THEN <<st.sub0>> ELSE <<>>

\* The button handler without the comparison of the payload.
hamqtt_button_handle_mqtt_message_any_payload(c, st, topic, data) ==
    /\ st.topic # NULL
    /\ strcmp_eq(topic, st.topic)
    /\ has_callback(c)

\* hamqtt_button_handle_mqtt_message: whether on_press_func is invoked.
hamqtt_button_handle_mqtt_message(c, st, topic, data) ==
    /\ st.topic # NULL
    /\ strcmp_eq(topic, st.topic)
    /\ strcmp_eq(data, S_PRESS)
    /\ has_callback(c)

\* hamqtt_component_handle_mqtt_message: the components whose callback the
\* handler invokes (a binary sensor's handler does nothing).
hamqtt_component_handle_mqtt_message(c, st, topic, data) ==
    IF IsButton(c) /\ hamqtt_button_handle_mqtt_message(c, st, topic, data)
    THEN <<c>> ELSE <<>>

(* ------------------------------------------------------------------ *)
(* Device: pure parts                                                  *)
(* ------------------------------------------------------------------ *)

\* The slots of the components array, and the index of the element past its
\* end.  In struct HAMQTT_Device component_count follows the array, so the
\* store components[PastEnd] = component and the increment that follows it
\* write the same bytes: whichever the build keeps, what is read back from
\* components[PastEnd] is not the pointer that was stored, and every loop that
\* reaches that index dereferences an invalid pointer.  The model keeps the
\* component written there only to tell where add_component wrote.
PastEnd == HAMQTT_DEVICE_MAX_COMPONENTS

\* The guard of hamqtt_device_add_component on the count.
add_component_has_room(count) == count <= HAMQTT_DEVICE_MAX_COMPONENTS

\* add_component testing the capacity before the component.
hamqtt_device_add_component_result_capacity_first(count, component) ==
    IF ~add_component_has_room(count) THEN ESP_ERR_NO_MEM
    ELSE IF component = NoComponent THEN ESP_ERR_INVALID_ARG
    ELSE ESP_OK

\* hamqtt_device_add_component's return value.
hamqtt_device_add_component_result(count, component) ==
    IF component = NoComponent THEN ESP_ERR_INVALID_ARG
    ELSE IF ~add_component_has_room(count) THEN ESP_ERR_NO_MEM
    ELSE ESP_OK

\* snprintf(device->availability_topic, sizeof, "%s/availability", unique_id)
availability_topic_of(cfg) ==
    snprintf(HAMQTT_CHAR_BUF_SIZE, cfg.unique_id \o S_availability)

\* snprintf(config_topic, sizeof, "%s/device/%s/config", prefix, unique_id)
config_topic_of(cfg) ==
    snprintf(HAMQTT_CHAR_BUF_SIZE,
             cfg.mqtt_config_topic_prefix \o S_device \o cfg.unique_id \o S_config)

\* The document that is never built.
NoDoc == [ device |-> <<>>, origin |-> <<>>, cmps |-> <<>>,
           availability_topic |-> NULL, qos |-> NULL ]

\* The "device" and "origin" objects of the discovery document.
device_json(cfg) ==
    LET j1 == cJSON_AddStringToObject(cJSON_CreateObject, "ids", cfg.unique_id)
        j2 == cJSON_AddStringToObject(j1, "name", cfg.name)
        j3 == AddStringIfPresent(j2, "mf", cfg.manufacturer)
        j4 == AddStringIfPresent(j3, "mdl", cfg.model)
        j5 == AddStringIfPresent(j4, "sw", cfg.sw_version)
        j6 == AddStringIfPresent(j5, "hw", cfg.hw_version)
    IN  AddStringIfPresent(j6, "sn", cfg.serial_number)

origin_json(cfg) ==
    LET j1 == cJSON_AddStringToObject(cJSON_CreateObject, "name", cfg.name)
        j2 == AddStringIfPresent(j1, "sw", cfg.sw_version)
    IN  AddStringIfPresent(j2, "url", cfg.origin_url)

\* The component loop of hamqtt_device_build_config from index i on.
\*   acc.cmps     the "cmps" object so far
\*   acc.cst      the component states so far
\*   acc.err      the error that ended the loop (ESP_OK while it runs)
\*   acc.crashed  the loop dereferenced what lies past the array
\* fail_at is the number (1-based) of the get_discovery_config call whose
\* malloc fails, 0 for none.
RECURSIVE build_components(_, _, _, _, _, _)
build_components(i, comps, count, uid, fail_at, acc) ==
    IF i >= count THEN acc
    ELSE IF i >= PastEnd THEN [acc EXCEPT !.crashed = TRUE]
    ELSE LET c == comps[i]
             r == hamqtt_component_get_discovery_config(c, acc.cst[c], uid, fail_at # i + 1)
         IN  IF r.err # ESP_OK
             THEN [acc EXCEPT !.cst[c] = r.st, !.err = r.err, !.failed_at = i + 1]
             ELSE build_components(i + 1, comps, count, uid, fail_at,
                    [acc EXCEPT !.cst[c] = r.st,
                                !.cmps = Append(@, [k |-> hamqtt_component_get_unique_id(c),
                                                     v |-> r.json])])

\* hamqtt_device_build_config without the check of the component's result:
\* the document is assembled from what was built and ESP_OK is returned.
hamqtt_device_build_config_unchecked(cfg, comps, count, cst, avail, fail_at) ==
    LET a == snprintf(HAMQTT_CHAR_BUF_SIZE, cfg.unique_id \o S_availability)
        r == build_components(0, comps, count, cfg.unique_id, fail_at,
               [ cmps |-> cJSON_CreateObject, cst |-> cst, err |-> ESP_OK,
                 crashed |-> FALSE, failed_at |-> 0 ])
    IN  [ err |-> ESP_OK,
          doc |-> [ device |-> device_json(cfg), origin |-> origin_json(cfg),
                    cmps |-> r.cmps, availability_topic |-> a, qos |-> <<"1">> ],
          cst |-> r.cst, avail |-> a, crashed |-> r.crashed,
          failed_at |-> r.failed_at ]

\* hamqtt_device_build_config: [err, doc, cst, avail, crashed, failed_at].
hamqtt_device_build_config(cfg, comps, count, cst, avail, fail_at) ==
    IF ~hamqtt_device_is_config_valid(cfg)
    THEN [ err |-> ESP_ERR_INVALID_STATE, doc |-> NoDoc, cst |-> cst, avail |-> avail,
           crashed |-> FALSE, failed_at |-> 0 ]
    ELSE LET a == availability_topic_of(cfg)
             r == build_components(0, comps, count, cfg.unique_id, fail_at,
                    [ cmps |-> cJSON_CreateObject, cst |-> cst, err |-> ESP_OK,
                      crashed |-> FALSE, failed_at |-> 0 ])
         IN  [ err |-> r.err,
               doc |-> IF r.err = ESP_OK /\ ~r.crashed
                       THEN [ device |-> device_json(cfg), origin |-> origin_json(cfg),
                              cmps |-> r.cmps, availability_topic |-> a, qos |-> <<"1">> ]
                       ELSE NoDoc,
               cst |-> r.cst, avail |-> a, crashed |-> r.crashed,
               failed_at |-> r.failed_at ]

\* A call made to the bus client, as it is issued.  ptr tells what the topic
\* pointer passed was ("live", "null" or "dangling").
PublishCall(client, topic, data, json) ==
    [ op |-> "publish", client |-> client, topic |-> topic, ptr |-> "live",
      data |-> data, json |-> json, qos |-> 1, retain |-> 1 ]

SubscribeCall(client, t) ==
    [ op |-> "subscribe", client |-> client, topic |-> t.s, ptr |-> t.st,
      data |-> <<>>, json |-> NoDoc, qos |-> 1, retain |-> 0 ]

\* esp_mqtt_client_publish(mqtt_client, sensor->state_topic, "ON"/"OFF", 0, 1, 1)
StatePublish(client, topic, v) ==
    [ PublishCall(client, topic, IF v THEN S_ON ELSE S_OFF, NoDoc)
        EXCEPT !.ptr = IF topic = NULL THEN "null" ELSE "live" ]

\* The sensor update publishing on every call when force_update is set.
hamqtt_binary_sensor_update_forced(c, st, client, v) ==
    IF ~has_callback(c) THEN [st |-> st, calls |-> <<>>]
    ELSE IF /\ v = st.previous_state /\ st.has_sent_state
            /\ ~component_config(c).force_update
    THEN [st |-> st, calls |-> <<>>]
    ELSE [ st |-> [st EXCEPT !.has_sent_state = TRUE, !.previous_state = v],
           calls |-> <<StatePublish(client, st.topic, v)>> ]

\* The sensor update announcing the first value and then publishing it as a
\* change as well.
hamqtt_binary_sensor_update_announce_and_change(c, st, client, v) ==
    IF ~has_callback(c) THEN [st |-> st, calls |-> <<>>]
    ELSE LET announce == IF st.has_sent_state THEN <<>>
                         ELSE <<StatePublish(client, st.topic, v)>>
             change == IF v = st.previous_state THEN <<>>
                       ELSE <<StatePublish(client, st.topic, v)>>
         IN  [ st |-> [st EXCEPT !.has_sent_state = TRUE, !.previous_state = v],
               calls |-> announce \o change ]

\* The sensor update without the has_sent_state flag.
hamqtt_binary_sensor_update_on_change_only(c, st, client, v) ==
    IF ~has_callback(c) THEN [st |-> st, calls |-> <<>>]
    ELSE IF v = st.previous_state
    THEN [st |-> st, calls |-> <<>>]
    ELSE [ st |-> [st EXCEPT !.has_sent_state = TRUE, !.previous_state = v],
           calls |-> <<StatePublish(client, st.topic, v)>> ]

\* The sensor update recording a value as sent only when it was published
\* on a present handle.
hamqtt_binary_sensor_update_sent_when_connected(c, st, client, v) ==
    IF ~has_callback(c) THEN [st |-> st, calls |-> <<>>]
    ELSE IF v = st.previous_state /\ st.has_sent_state
    THEN [st |-> st, calls |-> <<>>]
    ELSE [ st |-> IF client = 0 THEN st
                  ELSE [st EXCEPT !.has_sent_state = TRUE, !.previous_state = v],
           calls |-> <<StatePublish(client, st.topic, v)>> ]

\* hamqtt_binary_sensor_update: [st, calls].  v is what get_state_func
\* returns, client the handle passed to update.
hamqtt_binary_sensor_update(c, st, client, v) ==
    IF ~has_callback(c) THEN [st |-> st, calls |-> <<>>]
    ELSE IF v = st.previous_state /\ st.has_sent_state
    THEN [st |-> st, calls |-> <<>>]
    ELSE [ st |-> [st EXCEPT !.has_sent_state = TRUE, !.previous_state = v],
           calls |-> <<StatePublish(client, st.topic, v)>> ]

\* The button update releasing the command topic.
hamqtt_button_update_releases_topic(c, st, client, v) ==
    [st |-> [st EXCEPT !.topic = NULL], calls |-> <<>>]

\* The button's update announcing a state as a binary sensor does.
hamqtt_button_update_announcing(c, st, client, v) ==
    [st |-> st, calls |-> <<StatePublish(client, st.topic, v)>>]

\* hamqtt_button_update does nothing.
hamqtt_button_update(c, st, client, v) == [st |-> st, calls |-> <<>>]

\* hamqtt_component_update (through the v-table).
hamqtt_component_update(c, st, client, v) ==
    IF IsButton(c) THEN hamqtt_button_update(c, st, client, v)
    ELSE hamqtt_binary_sensor_update(c, st, client, v)

\* hamqtt_device_loop from index i on: [cst, ticked, crashed].  vals[i] is
\* what the state accessor of the component at index i returns; ticked tells
\* of each update the component, the handle passed, the value the accessor
\* returned (FALSE where none is called) and the publish calls issued.
RECURSIVE hamqtt_device_loop(_, _, _, _, _, _)
hamqtt_device_loop(i, comps, count, cst, client, vals) ==
    IF i >= count THEN [cst |-> cst, ticked |-> <<>>, crashed |-> FALSE]
    ELSE IF i >= PastEnd THEN [cst |-> cst, ticked |-> <<>>, crashed |-> TRUE]
    ELSE LET c == comps[i]
             r == hamqtt_component_update(c, cst[c], client, vals[i])
             rest == hamqtt_device_loop(i + 1, comps, count,
                                        [cst EXCEPT ![c] = r.st], client, vals)
         IN  [ cst |-> rest.cst,
               ticked |-> <<[ c |-> c, client |-> client,
                              read |-> (~IsButton(c) /\ has_callback(c) /\ vals[i]),
                              calls |-> r.calls ]>>
                          \o rest.ticked,
               crashed |-> rest.crashed ]

\* The calls esp_mqtt_client_subscribe_single of one component, topics in order.
RECURSIVE subscribe_topics(_, _, _)
subscribe_topics(client, topics, j) ==
    IF j > Len(topics) THEN <<>>
    ELSE <<SubscribeCall(client, topics[j])>> \o subscribe_topics(client, topics, j + 1)

\* hamqtt_device_subscribe from index i on: [calls, crashed].
RECURSIVE hamqtt_device_subscribe(_, _, _, _, _)
hamqtt_device_subscribe(i, comps, count, cst, client) ==
    IF i >= count THEN [calls |-> <<>>, crashed |-> FALSE]
    ELSE IF i >= PastEnd THEN [calls |-> <<>>, crashed |-> TRUE]
    ELSE LET c == comps[i]
             here == subscribe_topics(client,
                        hamqtt_component_get_subscribed_topics(c, cst[c]), 1)
             rest == hamqtt_device_subscribe(i + 1, comps, count, cst, client)
         IN  [calls |-> here \o rest.calls, crashed |-> rest.crashed]

\* memset(buf, 0, sizeof buf); memcpy(buf, raw, len < SIZE-1 ? len : SIZE-1):
\* the C string the router works with.
materialize(raw) == CStr(SubSeq(raw, 1, Min(Len(raw), HAMQTT_CHAR_BUF_SIZE - 1)))

\* The topic loop of one component in hamqtt_device_handle_mqtt_message:
\* [handled, pressed, crashed].  stale is what a released topic string holds
\* when it is read: "old" (its former text), "other" or "trap".
RECURSIVE route_topics(_, _, _, _, _, _, _)
route_topics(c, st, topics, j, topic_str, data_str, stale) ==
    IF j > Len(topics) THEN [handled |-> <<>>, pressed |-> <<>>, crashed |-> FALSE]
    ELSE LET t == topics[j]
             rest == route_topics(c, st, topics, j + 1, topic_str, data_str, stale)
         IN  IF t.st = "null" \/ (t.st = "dangling" /\ stale = "trap")
             THEN [handled |-> <<>>, pressed |-> <<>>, crashed |-> TRUE]
             ELSE IF (t.st = "live" \/ stale = "old") /\ strcmp_eq(t.s, topic_str)
             THEN [ handled |-> <<c>> \o rest.handled,
                    pressed |-> hamqtt_component_handle_mqtt_message(c, st, topic_str, data_str)
                                \o rest.pressed,
                    crashed |-> rest.crashed ]
             ELSE rest

\* hamqtt_device_handle_mqtt_message on the materialized strings, from index
\* i on: [handled, pressed, crashed].
RECURSIVE route_components(_, _, _, _, _, _, _)
route_components(i, comps, count, cst, topic_str, data_str, stale) ==
    IF i >= count THEN [handled |-> <<>>, pressed |-> <<>>, crashed |-> FALSE]
    ELSE IF i >= PastEnd
    THEN [handled |-> <<>>, pressed |-> <<>>, crashed |-> TRUE]
    ELSE LET c == comps[i]
             here == route_topics(c, cst[c], hamqtt_component_get_subscribed_topics(c, cst[c]),
                                  1, topic_str, data_str, stale)
             rest == IF here.crashed
                     THEN [handled |-> <<>>, pressed |-> <<>>, crashed |-> TRUE]
                     ELSE route_components(i + 1, comps, count, cst, topic_str, data_str,
                                           stale)
         IN  [ handled |-> here.handled \o rest.handled,
               pressed |-> here.pressed \o rest.pressed,
               crashed |-> rest.crashed ]

\* The router stopping at the first handler it invokes.
hamqtt_device_handle_mqtt_message_first_match(comps, count, cst, topic, data, stale) ==
    LET r == route_components(0, comps, count, cst, materialize(topic),
                              materialize(data), stale)
    IN  [ handled |-> SubSeq(r.handled, 1, Min(Len(r.handled), 1)),
          pressed |-> SubSeq(r.pressed, 1, Min(Len(r.pressed), 1)),
          crashed |-> r.crashed ]

hamqtt_device_handle_mqtt_message(comps, count, cst, topic, data, stale) ==
    route_components(0, comps, count, cst, materialize(topic), materialize(data), stale)

(* ------------------------------------------------------------------ *)
(* State                                                               *)
(* ------------------------------------------------------------------ *)

VARIABLES
    device_config,      \* device->device_config
    components,         \* device->components, and the element past its end
    component_count,    \* device->component_count
    availability_topic, \* device->availability_topic
    mqtt_client,        \* device->mqtt_client: 0 is NULL, n the n-th client
    mqtt_event_group,   \* device->mqtt_event_group: 0 before any is created
    event_bits,         \* MQTT_CONNECTED_BIT of the current event group
    cst,                \* the state of each component object
    clients,            \* the bus clients created: [started, connected]
    app_pc,             \* where the application context is
    evt_pc,             \* where the bus-event context is
    woken,              \* the wait of connect finds (or found) the bit set
    doc,                \* ha_dev_config_json of the connect call in progress
    last_ret,           \* the last call of the application that returned
    wire,               \* the calls connect and the event handler have made
                        \* to the bus clients since the last connect call was
                        \* entered, in order
    rx,                 \* the inbound message being handled, what it invoked
    crashed,            \* the program dereferenced an invalid pointer
    add_calls,          \* add_component calls made with a component
    connect_calls,      \* connect calls made
    conn_events,        \* CONNECTED events delivered since the last connect
                        \* call was entered
    call,               \* what the last connect call saw and did
    avail,              \* the hamqtt_device_publish_availability call that is
                        \* returning: its argument, result and publish
    ticks,              \* the update calls made on each component, in order:
                        \* the value read from the state accessor and the
                        \* publish calls issued
    loop,               \* the hamqtt_device_loop call that is returning: the
                        \* update calls it made, in order
    inflight            \* a component's update and message handler taken
                        \* statement by statement: what each has read so far

vars == << device_config, components, component_count, availability_topic,
           mqtt_client, mqtt_event_group, event_bits, cst, clients, app_pc,
           evt_pc, woken, doc, last_ret, wire, rx, crashed,
           add_calls, connect_calls, conn_events, call, avail, ticks, loop, inflight >>

device_vars == << device_config, components, component_count, availability_topic,
                  mqtt_client, mqtt_event_group, event_bits >>

NoRx == [ topic |-> <<>>, data |-> <<>>, handled |-> <<>>, pressed |-> <<>>, n |-> 0 ]

\* op is "add" or "connect", arg the component passed to add_component.
NoRet == [ op |-> "none", arg |-> NoComponent, err |-> NoResult ]

Ret(op, arg, err) == [ op |-> op, arg |-> arg, err |-> err ]

\* The components add_component accepted, in the order it accepted them.
registered == [i \in 1..component_count |-> components[i - 1]]

NoCall == [ outcome |-> "none", clients0 |-> 0, client0 |-> 0,
            failed_at |-> 0, wire_ret |-> 0, bits_ret |-> FALSE ]

NoAvail == [ arg |-> FALSE, err |-> NoResult, calls |-> <<>> ]

NoLoop == [ n |-> 0, ticked |-> <<>> ]

NoTick == [ n |-> 0, client |-> 0, v |-> FALSE, publish |-> FALSE ]

NoMsg == [ n |-> 0, topic |-> <<>>, data |-> <<>>, present |-> FALSE, t0 |-> 0 ]

NoInflight == [ tick |-> NoTick, msg |-> NoMsg ]

\* The raw topics and payloads the broker delivers.
InMessages ==
    { [topic |-> button_command_topic(S_node1, S_b1), data |-> S_PRESS],
      [topic |-> button_command_topic(S_node1, S_b1), data |-> S_press_lower],
      [topic |-> button_command_topic(S_node1, S_wide_id), data |-> S_PRESS],
      [topic |-> button_command_topic(S_node1, S_wide_id) \o <<"x">>, data |-> S_PRESS],
      [topic |-> <<"n","o","d","e","1","/","z">>, data |-> S_PRESS] }

\* What reading a released topic string can yield, where one is read.
StaleOutcomes ==
    IF \E c \in Pool : cst[c].sub0.st = "dangling"
    THEN {"old", "other", "trap"} ELSE {"old"}

\* hamqtt_device_create: the device after construction.
Init ==
    /\ device_config \in DeviceConfigs
    /\ components = [i \in 0..HAMQTT_DEVICE_MAX_COMPONENTS |-> Uninit]
    /\ component_count = 0
    /\ availability_topic = NULL
    /\ mqtt_client = 0
    /\ mqtt_event_group = 0
    /\ event_bits = FALSE
    /\ cst = [c \in Pool |-> component_created]
    /\ clients = <<>>
    /\ app_pc = "idle"
    /\ evt_pc = "idle"
    /\ woken = FALSE
    /\ doc = NoDoc
    /\ last_ret = NoRet
    /\ wire = <<>>
    /\ rx = NoRx
    /\ crashed = FALSE
    /\ add_calls = 0
    /\ connect_calls = 0
    /\ conn_events = 0
    /\ call = NoCall
    /\ avail = NoAvail
    /\ loop = NoLoop
    /\ inflight = NoInflight
    /\ ticks = [c \in Pool |-> <<>>]

(* ------------------------------------------------------------------ *)
(* Application context                                                 *)
(* ------------------------------------------------------------------ *)

\* hamqtt_device_add_component(device, component).  The application registers
\* its components before it connects; add_calls stops the calls once the
\* array has been overrun and the next call has been refused.
AddComponent(component) ==
    /\ ~crashed /\ app_pc = "idle"
    /\ add_calls <= HAMQTT_DEVICE_MAX_COMPONENTS + 1
    /\ connect_calls = 0
    /\ LET r == hamqtt_device_add_component_result(component_count, component)
       IN  /\ last_ret' = Ret("add", component, r)
           /\ IF r = ESP_OK
              THEN /\ components' = [components EXCEPT ![component_count] = component]
                   /\ component_count' = component_count + 1
              ELSE UNCHANGED << components, component_count >>
    /\ add_calls' = IF component = NoComponent THEN add_calls ELSE add_calls + 1
    /\ UNCHANGED << device_config, availability_topic, mqtt_client, mqtt_event_group,
                    event_bits, cst, clients, app_pc, evt_pc, woken, doc,
                    wire, rx, crashed, connect_calls, conn_events, call >>
    /\ UNCHANGED << avail, ticks, loop, inflight >>

\* hamqtt_device_connect, first part: hamqtt_device_build_config and
\* cJSON_Print; an error of the build is returned at once.
ConnectBuild(fail_at) ==
    /\ ~crashed /\ app_pc = "idle"
    /\ connect_calls < MaxConnects
    /\ connect_calls' = connect_calls + 1
    /\ LET b == hamqtt_device_build_config(device_config, components, component_count,
                                           cst, availability_topic, fail_at)
           entry == [ NoCall EXCEPT !.clients0 = Len(clients),
                                    !.client0 = mqtt_client,
                                    !.failed_at = b.failed_at ]
       IN  /\ cst' = b.cst
           /\ availability_topic' = b.avail
           /\ crashed' = b.crashed
           /\ IF b.crashed
              THEN /\ app_pc' = "crashed"
                   /\ call' = [entry EXCEPT !.outcome = "crashed"]
                   /\ doc' = NoDoc
                   /\ last_ret' = NoRet
              ELSE IF b.err # ESP_OK
              THEN /\ app_pc' = "idle"
                   /\ last_ret' = Ret("connect", NoComponent, b.err)
                   /\ doc' = NoDoc
                   /\ call' = [entry EXCEPT !.outcome = "build_failed",
                                            !.bits_ret = event_bits]
              ELSE /\ app_pc' = "start"
                   /\ doc' = b.doc
                   /\ call' = [entry EXCEPT !.outcome = "running"]
                   /\ last_ret' = NoRet
    /\ wire' = <<>>
    /\ conn_events' = 0
    /\ UNCHANGED << device_config, components, component_count, mqtt_client,
                    mqtt_event_group, event_bits, clients, evt_pc, woken,
                    rx, add_calls >>
    /\ UNCHANGED << avail, ticks, loop, inflight >>

\* The client created without a last will.
ConnectStart_no_will(started_ok) ==
    /\ ~crashed /\ app_pc = "start"
    /\ mqtt_event_group' = connect_calls
    /\ event_bits' = FALSE
    /\ woken' = FALSE
    /\ clients' = Append(clients, [ started |-> started_ok, connected |-> FALSE,
                                     will_topic |-> NULL,
                                     will_msg |-> NULL, will_qos |-> 0,
                                     will_retain |-> 0 ])
    /\ mqtt_client' = Len(clients) + 1
    /\ IF started_ok
       THEN /\ app_pc' = "wait"
            /\ UNCHANGED << last_ret, call >>
       ELSE /\ app_pc' = "idle"
            /\ last_ret' = Ret("connect", NoComponent, ESP_FAIL)
            /\ call' = [call EXCEPT !.outcome = "start_failed", !.wire_ret = Len(wire),
                                    !.bits_ret = FALSE]
    /\ UNCHANGED << device_config, components, component_count, availability_topic,
                    cst, evt_pc, doc, wire, rx, crashed, add_calls,
                    connect_calls, conn_events >>
    /\ UNCHANGED << avail, ticks, loop, inflight >>

\* hamqtt_device_connect, second part: the last will is configured, the event
\* group and the client are created, the handler is registered, the client is
\* started (started_ok is esp_mqtt_client_start's outcome) and the wait begins.
ConnectStart(started_ok) ==
    /\ ~crashed /\ app_pc = "start"
    /\ mqtt_event_group' = connect_calls
    /\ event_bits' = FALSE
    /\ woken' = FALSE
    /\ clients' = Append(clients, [ started |-> started_ok, connected |-> FALSE,
                                     will_topic |-> availability_topic,
                                     will_msg |-> S_offline, will_qos |-> 1,
                                     will_retain |-> 1 ])
    /\ mqtt_client' = Len(clients) + 1
    /\ IF started_ok
       THEN /\ app_pc' = "wait"
            /\ UNCHANGED << last_ret, call >>
       ELSE /\ app_pc' = "idle"
            /\ last_ret' = Ret("connect", NoComponent, ESP_FAIL)
            /\ call' = [call EXCEPT !.outcome = "start_failed", !.wire_ret = Len(wire),
                                    !.bits_ret = FALSE]
    /\ UNCHANGED << device_config, components, component_count, availability_topic,
                    cst, evt_pc, doc, wire, rx, crashed, add_calls,
                    connect_calls, conn_events >>
    /\ UNCHANGED << avail, ticks, loop, inflight >>

\* The wait taken as successful without looking at the bits it returned.
ConnectWaitConnected_unchecked ==
    /\ ~crashed /\ app_pc = "wait"
    /\ app_pc' = "publish"
    /\ UNCHANGED << device_vars, cst, clients, evt_pc, woken, doc, last_ret,
                    wire, rx, crashed, add_calls, connect_calls, conn_events, call >>
    /\ UNCHANGED << avail, ticks, loop, inflight >>

\* xEventGroupWaitBits returned because the bit was set.
ConnectWaitConnected ==
    /\ ~crashed /\ app_pc = "wait"
    /\ woken
    /\ app_pc' = "publish"
    /\ UNCHANGED << device_vars, cst, clients, evt_pc, woken, doc, last_ret,
                    wire, rx, crashed, add_calls, connect_calls, conn_events, call >>
    /\ UNCHANGED << avail, ticks, loop, inflight >>

\* The failure return taken without looking at the bits the wait returned.
ConnectWaitTimeout_unchecked ==
    /\ ~crashed /\ app_pc = "wait"
    /\ app_pc' = "idle"
    /\ last_ret' = Ret("connect", NoComponent, ESP_FAIL)
    /\ call' = [call EXCEPT !.outcome = "timeout", !.wire_ret = Len(wire),
                            !.bits_ret = event_bits]
    /\ UNCHANGED << device_vars, cst, clients, evt_pc, woken, doc,
                    wire, rx, crashed, add_calls, connect_calls, conn_events >>
    /\ UNCHANGED << avail, ticks, loop, inflight >>

\* xEventGroupWaitBits returned because HAMQTT_MQTT_CONNECT_TIMEOUT_MS elapsed;
\* connect returns ESP_FAIL.
ConnectWaitTimeout ==
    /\ ~crashed /\ app_pc = "wait"
    /\ ~woken
    /\ app_pc' = "idle"
    /\ last_ret' = Ret("connect", NoComponent, ESP_FAIL)
    /\ call' = [call EXCEPT !.outcome = "timeout", !.wire_ret = Len(wire),
                            !.bits_ret = event_bits]
    /\ UNCHANGED << device_vars, cst, clients, evt_pc, woken, doc,
                    wire, rx, crashed, add_calls, connect_calls, conn_events >>
    /\ UNCHANGED << avail, ticks, loop, inflight >>

\* hamqtt_device_connect, last part: the discovery document is published and
\* connect returns ESP_OK.
ConnectPublish ==
    /\ ~crashed /\ app_pc = "publish"
    /\ wire' = Append(wire, PublishCall(mqtt_client, config_topic_of(device_config),
                                        <<>>, doc))
    /\ app_pc' = "idle"
    /\ last_ret' = Ret("connect", NoComponent, ESP_OK)
    /\ call' = [call EXCEPT !.outcome = "ok", !.wire_ret = Len(wire) + 1,
                            !.bits_ret = event_bits]
    /\ UNCHANGED << device_vars, cst, clients, evt_pc, woken, doc,
                    rx, crashed, add_calls, connect_calls, conn_events >>
    /\ UNCHANGED << avail, ticks, loop, inflight >>

\* hamqtt_device_publish_availability: [err, calls].
hamqtt_device_publish_availability(client, topic, availability) ==
    IF client = 0 THEN [err |-> ESP_ERR_INVALID_STATE, calls |-> <<>>]
    ELSE [ err |-> ESP_OK,
           calls |-> <<PublishCall(client, topic,
                                   IF availability THEN S_online ELSE S_offline,
                                   NoDoc)>> ]

\* The application calls hamqtt_device_publish_availability(device, availability).
\* The call reads the client handle and the availability topic, which only
\* the application context writes, and the event handler reads nothing the
\* call writes: the call is taken while the handler is at rest and runs to
\* its return, every interleaving with the handler's steps being equivalent
\* to that one.
PublishAvailability(availability) ==
    /\ ~crashed /\ app_pc = "idle" /\ evt_pc = "idle"
    /\ LET r == hamqtt_device_publish_availability(mqtt_client, availability_topic,
                                                   availability)
       IN  avail' = [arg |-> availability, err |-> r.err, calls |-> r.calls]
    /\ app_pc' = "availability"
    /\ UNCHANGED << device_vars, cst, clients, evt_pc, woken, doc, last_ret, wire,
                    rx, crashed, add_calls, connect_calls, conn_events, call, ticks, loop, inflight >>

\* hamqtt_device_publish_availability returns to the application.
PublishAvailabilityReturn ==
    /\ ~crashed /\ app_pc = "availability"
    /\ app_pc' = "idle"
    /\ avail' = NoAvail
    /\ UNCHANGED << device_vars, cst, clients, evt_pc, woken, doc, last_ret, wire,
                    rx, crashed, add_calls, connect_calls, conn_events, call, ticks, loop, inflight >>

\* The application calls hamqtt_device_loop(device).  The call reads the
\* registry and the client handle, which only the application context writes,
\* and reads and writes has_sent_state and previous_state, which the event
\* handler neither reads nor writes: the call is taken while the handler is at
\* rest and runs to its return.
Loop(vals) ==
    /\ ~crashed /\ app_pc = "idle" /\ evt_pc = "idle"
    /\ LET r == hamqtt_device_loop(0, components, component_count, cst, mqtt_client,
                                   vals)
       IN  /\ cst' = r.cst
           /\ loop' = [n |-> 1, ticked |-> r.ticked]
           /\ crashed' = r.crashed
           /\ app_pc' = IF r.crashed THEN "crashed" ELSE "loop"
    /\ UNCHANGED << device_vars, clients, evt_pc, woken, doc, last_ret, wire, rx,
                    add_calls, connect_calls, conn_events, call, avail, ticks, inflight >>

\* hamqtt_device_loop returns to the application.
LoopReturn ==
    /\ ~crashed /\ app_pc = "loop"
    /\ app_pc' = "idle"
    /\ loop' = NoLoop
    /\ UNCHANGED << device_vars, cst, clients, evt_pc, woken, doc, last_ret, wire,
                    rx, crashed, add_calls, connect_calls, conn_events, call,
                    avail, ticks, inflight >>

(* ------------------------------------------------------------------ *)
(* Bus-event context: hamqtt_device_mqtt_event_handler                 *)
(* ------------------------------------------------------------------ *)

\* MQTT_EVENT_BEFORE_CONNECT of client n: logged, nothing else.
EvtBeforeConnect(n) ==
    /\ ~crashed /\ app_pc \notin {"availability", "loop"} /\ evt_pc = "idle"
    /\ clients[n].started /\ ~clients[n].connected
    /\ UNCHANGED vars

\* MQTT_EVENT_CONNECTED of client n, first statement: xEventGroupSetBits.
EvtConnected(n) ==
    /\ ~crashed /\ app_pc \notin {"availability", "loop"} /\ evt_pc = "idle"
    /\ clients[n].started /\ ~clients[n].connected
    /\ conn_events < MaxConnEvents
    /\ conn_events' = conn_events + 1
    /\ clients' = [clients EXCEPT ![n].connected = TRUE]
    /\ event_bits' = TRUE
    /\ woken' = (woken \/ app_pc = "wait")
    /\ evt_pc' = "online"
    /\ UNCHANGED << device_config, components, component_count, availability_topic,
                    mqtt_client, mqtt_event_group, cst, app_pc, doc, last_ret,
                    wire, rx, crashed, add_calls, connect_calls, call >>
    /\ UNCHANGED << avail, ticks, loop, inflight >>

\* The CONNECTED handler publishing the discovery document after "online".
EvtPublishOnline_with_discovery ==
    /\ ~crashed /\ app_pc \notin {"availability", "loop"} /\ evt_pc = "online"
    /\ wire' = wire \o hamqtt_device_publish_availability(mqtt_client,
                                       availability_topic, TRUE).calls
                    \o <<PublishCall(mqtt_client, config_topic_of(device_config),
                                     <<>>, doc)>>
    /\ evt_pc' = "subscribe"
    /\ UNCHANGED << device_vars, cst, clients, app_pc, woken, doc, last_ret,
                    rx, crashed, add_calls, connect_calls, conn_events, call >>
    /\ UNCHANGED << avail, ticks, loop, inflight >>

\* The CONNECTED handler going on to subscribe without the "online" publish.
EvtPublishOnline_skipped ==
    /\ ~crashed /\ app_pc \notin {"availability", "loop"} /\ evt_pc = "online"
    /\ evt_pc' = "subscribe"
    /\ UNCHANGED << device_vars, cst, clients, app_pc, woken, doc, last_ret, wire,
                    rx, crashed, add_calls, connect_calls, conn_events, call >>
    /\ UNCHANGED << avail, ticks, loop, inflight >>

\* MQTT_EVENT_CONNECTED, second statement:
\* hamqtt_device_publish_availability(device, true).
EvtPublishOnline ==
    /\ ~crashed /\ app_pc \notin {"availability", "loop"} /\ evt_pc = "online"
    /\ wire' = wire \o hamqtt_device_publish_availability(mqtt_client,
                                       availability_topic, TRUE).calls
    /\ evt_pc' = "subscribe"
    /\ UNCHANGED << device_vars, cst, clients, app_pc, woken, doc, last_ret,
                    rx, crashed, add_calls, connect_calls, conn_events, call >>
    /\ UNCHANGED << avail, ticks, loop, inflight >>

\* MQTT_EVENT_CONNECTED, third statement: hamqtt_device_subscribe(device).
EvtSubscribe ==
    /\ ~crashed /\ app_pc \notin {"availability", "loop"} /\ evt_pc = "subscribe"
    /\ LET r == hamqtt_device_subscribe(0, components, component_count, cst,
                                        mqtt_client)
       IN  /\ wire' = wire \o r.calls
           /\ crashed' = r.crashed
           /\ evt_pc' = IF r.crashed THEN "crashed" ELSE "idle"
    /\ UNCHANGED << device_vars, cst, clients, app_pc, woken, doc, last_ret,
                    rx, add_calls, connect_calls, conn_events, call >>
    /\ UNCHANGED << avail, ticks, loop, inflight >>

\* The DISCONNECTED handler without xEventGroupClearBits.
EvtDisconnected_keeps_bit(n, still_to_wait) ==
    /\ ~crashed /\ app_pc \notin {"availability", "loop"} /\ evt_pc = "idle"
    /\ clients[n].started /\ clients[n].connected
    /\ still_to_wait => (app_pc = "wait" /\ woken)
    /\ clients' = [clients EXCEPT ![n].connected = FALSE]
    /\ event_bits' = event_bits
    /\ woken' = (woken /\ ~still_to_wait)
    /\ UNCHANGED << device_config, components, component_count, availability_topic,
                    mqtt_client, mqtt_event_group, cst, app_pc, evt_pc, doc,
                    last_ret, wire, rx, crashed, add_calls,
                    connect_calls, conn_events, call >>
    /\ UNCHANGED << avail, ticks, loop, inflight >>

\* MQTT_EVENT_DISCONNECTED of client n: xEventGroupClearBits.  A connect call
\* that has started its client but has not reached xEventGroupWaitBits yet
\* (still_to_wait) loses the bit it would have found; one that the bit has
\* unblocked keeps the bits it was handed.
EvtDisconnected(n, still_to_wait) ==
    /\ ~crashed /\ app_pc \notin {"availability", "loop"} /\ evt_pc = "idle"
    /\ clients[n].started /\ clients[n].connected
    /\ still_to_wait => (app_pc = "wait" /\ woken)
    /\ clients' = [clients EXCEPT ![n].connected = FALSE]
    /\ event_bits' = FALSE
    /\ woken' = (woken /\ ~still_to_wait)
    /\ UNCHANGED << device_config, components, component_count, availability_topic,
                    mqtt_client, mqtt_event_group, cst, app_pc, evt_pc, doc,
                    last_ret, wire, rx, crashed, add_calls,
                    connect_calls, conn_events, call >>
    /\ UNCHANGED << avail, ticks, loop, inflight >>

\* MQTT_EVENT_DATA of client n: hamqtt_device_handle_mqtt_message.
EvtData(n, topic, data, stale) ==
    /\ ~crashed /\ app_pc \notin {"availability", "loop"} /\ evt_pc = "idle"
    /\ clients[n].started /\ clients[n].connected
    /\ LET r == hamqtt_device_handle_mqtt_message(components, component_count, cst,
                                                  topic, data, stale)
       IN  /\ rx' = [ topic |-> topic, data |-> data, handled |-> r.handled,
                      pressed |-> r.pressed, n |-> 1 ]
           /\ crashed' = r.crashed
           /\ evt_pc' = IF r.crashed THEN "crashed" ELSE "data"
    /\ UNCHANGED << device_vars, cst, clients, app_pc, woken, doc, last_ret,
                    wire, add_calls, connect_calls, conn_events, call >>
    /\ UNCHANGED << avail, ticks, loop, inflight >>

\* The handler returns from MQTT_EVENT_DATA.
EvtDataReturn ==
    /\ ~crashed /\ app_pc \notin {"availability", "loop"} /\ evt_pc = "data"
    /\ evt_pc' = "idle"
    /\ rx' = NoRx
    /\ UNCHANGED << device_vars, cst, clients, app_pc, woken, doc, last_ret,
                    wire, crashed, add_calls, connect_calls, conn_events, call >>
    /\ UNCHANGED << avail, ticks, loop, inflight >>

Next ==
    \/ \E c \in Pool \cup {NoComponent} : AddComponent(c)
    \/ \E f \in 0..component_count : ConnectBuild(f)
    \/ \E ok \in BOOLEAN : ConnectStart(ok)
    \/ ConnectWaitConnected
    \/ ConnectWaitTimeout
    \/ ConnectPublish
    \/ \E b \in BOOLEAN : PublishAvailability(b)
    \/ PublishAvailabilityReturn
    \/ \E vals \in [0..(HAMQTT_DEVICE_MAX_COMPONENTS - 1) -> BOOLEAN] : Loop(vals)
    \/ LoopReturn
    \/ \E n \in 1..Len(clients) : EvtBeforeConnect(n)
    \/ \E n \in 1..Len(clients) : EvtConnected(n)
    \/ EvtPublishOnline
    \/ EvtSubscribe
    \/ \E n \in 1..Len(clients), w \in BOOLEAN : EvtDisconnected(n, w)
    \/ \E n \in 1..Len(clients), m \in InMessages, s \in StaleOutcomes :
          EvtData(n, m.topic, m.data, s)
    \/ EvtDataReturn

Spec == Init /\ [][Next]_vars

(* ------------------------------------------------------------------ *)
(* The components on their own: the calls the device makes on them     *)
(* ------------------------------------------------------------------ *)

\* The C strings handed to a component's handler as topic.
HandlerTopics ==
    LET t1 == button_command_topic(device_config.unique_id, S_b1)
        t2 == button_command_topic(device_config.unique_id, S_wide_id)
    IN  { t1, t2, t1 \o <<"x">>, SubSeq(t1, 1, Len(t1) - 1),
          button_command_topic(S_b1, device_config.unique_id) }

\* The C strings handed to a component's handler as payload.
HandlerPayloads ==
    { S_PRESS, S_press_lower, SubSeq(S_PRESS, 1, 4), S_PRESS \o <<"x">>, <<>> }

\* The states an object can be in when its configuration is what
\* component_config tells: as created, and, if the configuration was changed
\* since, also with the topic derived from the configuration it was created
\* with.
StatesSinceCreate(c, device_unique_id) ==
    IF component_config(c) = component_config_at_create(c)
    THEN {component_created}
    ELSE { component_created,
           IF IsButton(c)
           THEN hamqtt_button_get_discovery_config(
                    component_created, component_config_at_create(c),
                    device_unique_id, TRUE).st
           ELSE hamqtt_binary_sensor_get_discovery_config(
                    component_created, component_config_at_create(c),
                    device_unique_id, TRUE).st }

\* One component created and registered with a device whose configuration is
\* complete: the component the calls below are made on.
InitComponents ==
    /\ device_config \in {cfg \in DeviceConfigs : hamqtt_device_is_config_valid(cfg)}
    /\ \E c \in Objects :
          /\ components = [i \in 0..HAMQTT_DEVICE_MAX_COMPONENTS |->
                             IF i = 0 THEN c ELSE Uninit]
          /\ \E st \in StatesSinceCreate(c, device_config.unique_id) :
                cst = [o \in Objects |-> IF o = c THEN st ELSE component_created]
    /\ component_count = 1
    /\ availability_topic = NULL
    /\ mqtt_client = 0
    /\ mqtt_event_group = 0
    /\ event_bits = FALSE
    /\ clients = <<>>
    /\ app_pc = "idle"
    /\ evt_pc = "idle"
    /\ woken = FALSE
    /\ doc = NoDoc
    /\ last_ret = NoRet
    /\ wire = <<>>
    /\ rx = NoRx
    /\ crashed = FALSE
    /\ add_calls = 0
    /\ connect_calls = 0
    /\ conn_events = 0
    /\ call = NoCall
    /\ avail = NoAvail
    /\ loop = NoLoop
    /\ inflight = NoInflight
    /\ ticks = [c \in Objects |-> <<>>]

\* The key under which doc.cmps holds the object a component's
\* get_discovery_config was called on.
RootKey == <<"r","o","o","t">>

\* hamqtt_component_get_discovery_config(c, root, device_unique_id), root
\* being a new object.
CompGetDiscoveryConfig(c, malloc_ok) ==
    /\ rx = NoRx
    /\ LET r == hamqtt_component_get_discovery_config(c, cst[c],
                                                      device_config.unique_id, malloc_ok)
       IN  /\ cst' = [cst EXCEPT ![c] = r.st]
           /\ last_ret' = Ret("get_discovery_config", c, r.err)
           /\ doc' = [NoDoc EXCEPT !.cmps = <<[k |-> RootKey, v |-> r.json]>>]
    /\ UNCHANGED << device_vars, clients, app_pc, evt_pc, woken, wire, rx,
                    crashed, add_calls, connect_calls, conn_events, call, avail,
                    ticks, loop, inflight >>

\* hamqtt_component_handle_mqtt_message(c, topic, data)
CompHandleMessage(c, topic, data) ==
    /\ rx = NoRx
    /\ rx' = [ topic |-> topic, data |-> data, handled |-> <<c>>,
               pressed |-> hamqtt_component_handle_mqtt_message(c, cst[c], topic, data),
               n |-> 1 ]
    /\ UNCHANGED << device_vars, cst, clients, app_pc, evt_pc, woken, doc, last_ret,
                    wire, crashed, add_calls, connect_calls, conn_events, call,
                    avail, ticks, loop, inflight >>

\* The handler returns.
CompHandleReturn ==
    /\ rx # NoRx
    /\ rx' = NoRx
    /\ UNCHANGED << device_vars, cst, clients, app_pc, evt_pc, woken, doc, last_ret,
                    wire, crashed, add_calls, connect_calls, conn_events, call,
                    avail, ticks, loop, inflight >>

\* hamqtt_component_update(c, client); v is what the state accessor returns.
CompUpdate(c, client, v) ==
    /\ rx = NoRx
    /\ Len(ticks[c]) < MaxTicks
    /\ LET r == hamqtt_component_update(c, cst[c], client, v)
       IN  /\ cst' = [cst EXCEPT ![c] = r.st]
           /\ ticks' = [ticks EXCEPT ![c] = Append(@, [read |-> v, calls |-> r.calls])]
    /\ UNCHANGED << device_vars, clients, app_pc, evt_pc, woken, doc, last_ret,
                    wire, rx, crashed, add_calls, connect_calls, conn_events, call,
                    avail, loop, inflight >>

NextComponents ==
    \/ \E ok \in BOOLEAN : CompGetDiscoveryConfig(components[0], ok)
    \/ \E t \in HandlerTopics, d \in HandlerPayloads :
          CompHandleMessage(components[0], t, d)
    \/ CompHandleReturn
    \/ \E client \in {0, 1}, v \in BOOLEAN : CompUpdate(components[0], client, v)

SpecComponents == InitComponents /\ [][NextComponents]_vars

(* ------------------------------------------------------------------ *)
(* Components with and without their callback                          *)
(* ------------------------------------------------------------------ *)

\* As InitComponents, the component being one of CallbackObjects.
InitCallbacks ==
    /\ device_config \in {cfg \in DeviceConfigs : hamqtt_device_is_config_valid(cfg)}
    /\ \E c \in CallbackObjects :
          components = [i \in 0..HAMQTT_DEVICE_MAX_COMPONENTS |->
                          IF i = 0 THEN c ELSE Uninit]
    /\ cst = [o \in CallbackObjects |-> component_created]
    /\ component_count = 1
    /\ availability_topic = NULL
    /\ mqtt_client = 0
    /\ mqtt_event_group = 0
    /\ event_bits = FALSE
    /\ clients = <<>>
    /\ app_pc = "idle"
    /\ evt_pc = "idle"
    /\ woken = FALSE
    /\ doc = NoDoc
    /\ last_ret = NoRet
    /\ wire = <<>>
    /\ rx = NoRx
    /\ crashed = FALSE
    /\ add_calls = 0
    /\ connect_calls = 0
    /\ conn_events = 0
    /\ call = NoCall
    /\ avail = NoAvail
    /\ loop = NoLoop
    /\ inflight = NoInflight
    /\ ticks = [c \in CallbackObjects |-> <<>>]

SpecCallbacks == InitCallbacks /\ [][NextComponents]_vars

(* ------------------------------------------------------------------ *)
(* The life of a component: the calls made on it, then its destroy     *)
(* ------------------------------------------------------------------ *)

\* hamqtt_button_destroy(c) / hamqtt_binary_sensor_destroy(c) on a component
\* that is there (a NULL argument returns at once); the application makes no
\* call on a component it has destroyed.
CompDestroy(c) ==
    /\ rx = NoRx
    /\ c # NoComponent
    /\ ~cst[c].freed
    /\ cst' = [cst EXCEPT ![c] = hamqtt_component_destroy(cst[c])]
    /\ last_ret' = Ret("destroy", c, NoResult)
    /\ UNCHANGED << device_vars, clients, app_pc, evt_pc, woken, doc, wire, rx,
                    crashed, add_calls, connect_calls, conn_events, call, avail,
                    ticks, loop, inflight >>

InitLifetime == InitComponents

NextLifetime ==
    \/ \E ok \in BOOLEAN :
          /\ ~cst[components[0]].freed
          /\ CompGetDiscoveryConfig(components[0], ok)
    \/ \E t \in HandlerTopics, d \in HandlerPayloads :
          /\ ~cst[components[0]].freed
          /\ CompHandleMessage(components[0], t, d)
    \/ CompHandleReturn
    \/ \E client \in {0, 1}, v \in BOOLEAN :
          /\ ~cst[components[0]].freed
          /\ CompUpdate(components[0], client, v)
    \/ CompDestroy(components[0])

SpecLifetime == InitLifetime /\ [][NextLifetime]_vars

(* ------------------------------------------------------------------ *)
(* A component's update and message handler, statement by statement     *)
(* ------------------------------------------------------------------ *)

\* The update runs in the application context and the handler in the
\* bus-event context: the statements of one may fall between those of the
\* other.  get_discovery_config is called by connect, in the application
\* context, and is taken here while neither is under way.

\* The topics and payloads handed to the handler.
InterleavedMessages ==
    LET t1 == button_command_topic(device_config.unique_id, S_b1)
    IN  { [topic |-> t1, data |-> S_PRESS],
          [topic |-> t1, data |-> S_press_lower],
          [topic |-> t1 \o <<"x">>, data |-> S_PRESS] }

\* hamqtt_component_update, first statements: the state accessor is called
\* and its value compared with previous_state and has_sent_state.
UpdateRead(c, client, v) ==
    /\ ~crashed /\ inflight.tick.n = 0
    /\ Len(ticks[c]) < MaxTicks
    /\ inflight' = [inflight EXCEPT !.tick =
                       [ n |-> 1, client |-> client, v |-> v,
                         publish |-> hamqtt_component_update(c, cst[c], client, v).calls
                                     # <<>> ]]
    /\ UNCHANGED << device_vars, cst, clients, app_pc, evt_pc, woken, doc, last_ret,
                    wire, rx, crashed, add_calls, connect_calls, conn_events, call,
                    avail, ticks, loop >>

\* hamqtt_component_update, last statements: has_sent_state and
\* previous_state are written and the publish is issued.
UpdateWrite(c) ==
    /\ ~crashed /\ inflight.tick.n = 1
    /\ LET t == inflight.tick
           r == hamqtt_component_update(c, cst[c], t.client, t.v)
       IN  /\ cst' = [cst EXCEPT ![c] = r.st]
           /\ ticks' = [ticks EXCEPT ![c] = Append(@, [read |-> t.v, calls |-> r.calls])]
    /\ inflight' = [inflight EXCEPT !.tick = NoTick]
    /\ UNCHANGED << device_vars, clients, app_pc, evt_pc, woken, doc, last_ret,
                    wire, rx, crashed, add_calls, connect_calls, conn_events, call,
                    avail, loop >>

\* hamqtt_component_handle_mqtt_message, first statement of the button's
\* handler: if (!button->command_topic) return.  A binary sensor's handler
\* has no statement.
HandleEnter(c, topic, data) ==
    /\ ~crashed /\ inflight.msg.n = 0 /\ rx = NoRx
    /\ inflight' = [inflight EXCEPT !.msg =
                       [ n |-> 1, topic |-> topic, data |-> data,
                         present |-> (~IsButton(c) \/ cst[c].topic # NULL),
                         t0 |-> Len(ticks[c]) ]]
    /\ UNCHANGED << device_vars, cst, clients, app_pc, evt_pc, woken, doc, last_ret,
                    wire, rx, crashed, add_calls, connect_calls, conn_events, call,
                    avail, ticks, loop >>

\* The handler's other statements: command_topic is read again for strcmp
\* (a NULL there is dereferenced), the payload is compared and the callback
\* invoked.
HandleCompare(c) ==
    /\ ~crashed /\ inflight.msg.n = 1
    /\ LET m == inflight.msg
           trap == IsButton(c) /\ m.present /\ cst[c].topic = NULL
       IN  /\ crashed' = trap
           /\ rx' = [ topic |-> m.topic, data |-> m.data, handled |-> <<c>>,
                      pressed |-> IF trap \/ ~m.present THEN <<>>
                                  ELSE hamqtt_component_handle_mqtt_message(
                                           c, cst[c], m.topic, m.data),
                      n |-> 1 ]
    /\ inflight' = [inflight EXCEPT !.msg = NoMsg]
    /\ UNCHANGED << device_vars, cst, clients, app_pc, evt_pc, woken, doc, last_ret,
                    wire, add_calls, connect_calls, conn_events, call,
                    avail, ticks, loop >>

InitInterleaved == InitComponents

NextInterleaved ==
    \/ \E ok \in BOOLEAN :
          /\ inflight = NoInflight
          /\ CompGetDiscoveryConfig(components[0], ok)
    \/ \E m \in InterleavedMessages : HandleEnter(components[0], m.topic, m.data)
    \/ HandleCompare(components[0])
    \/ CompHandleReturn
    \/ \E client \in {0, 1}, v \in BOOLEAN : UpdateRead(components[0], client, v)
    \/ UpdateWrite(components[0])

SpecInterleaved == InitInterleaved /\ [][NextInterleaved]_vars

(* ------------------------------------------------------------------ *)
(* The message router on a connected device                            *)
(* ------------------------------------------------------------------ *)

\* The registries add_component can have built from the router's objects.
RouterRegistries ==
    UNION { [1..n -> RouterPool] : n \in 0..HAMQTT_DEVICE_MAX_COMPONENTS }

\* A device whose connect call has returned ESP_OK: the components were
\* registered in some order, hamqtt_device_build_config has derived the topic
\* of each, the client is started and connected and its CONNECTED event has
\* been handled.  The logs of calls start empty here.
InitRouter ==
    /\ device_config \in {cfg \in DeviceConfigs : hamqtt_device_is_config_valid(cfg)}
    /\ \E reg \in RouterRegistries :
          /\ components = [i \in 0..HAMQTT_DEVICE_MAX_COMPONENTS |->
                             IF i < Len(reg) THEN reg[i + 1] ELSE Uninit]
          /\ component_count = Len(reg)
          /\ add_calls = Len(reg)
          /\ cst = [o \in RouterPool |->
                      IF \E i \in 1..Len(reg) : reg[i] = o
                      THEN hamqtt_component_get_discovery_config(
                               o, component_created, device_config.unique_id, TRUE).st
                      ELSE component_created]
    /\ availability_topic = availability_topic_of(device_config)
    /\ mqtt_client = 1
    /\ mqtt_event_group = 1
    /\ event_bits = TRUE
    /\ clients = <<[ started |-> TRUE, connected |-> TRUE,
                      will_topic |-> availability_topic_of(device_config),
                      will_msg |-> S_offline, will_qos |-> 1, will_retain |-> 1 ]>>
    /\ app_pc = "idle"
    /\ evt_pc = "idle"
    /\ woken = FALSE
    /\ doc = NoDoc
    /\ last_ret = Ret("connect", NoComponent, ESP_OK)
    /\ wire = <<>>
    /\ rx = NoRx
    /\ crashed = FALSE
    /\ connect_calls = 1
    /\ conn_events = 1
    /\ call = NoCall
    /\ avail = NoAvail
    /\ ticks = [c \in RouterPool |-> <<>>]
    /\ loop = NoLoop
    /\ inflight = NoInflight

NextRouter ==
    \/ \E m \in InMessages : EvtData(1, m.topic, m.data, "old")
    \/ EvtDataReturn

SpecRouter == InitRouter /\ [][NextRouter]_vars

(* ------------------------------------------------------------------ *)
(* Properties                                                          *)
(* ------------------------------------------------------------------ *)

\* A publish of the discovery document (the only publish with a document).
IsDiscovery(w) == w.op = "publish" /\ w.json # NoDoc

\* The positions of wire that hold a discovery publish / a subscription.
DiscoveryAt == {j \in 1..Len(wire) : IsDiscovery(wire[j])}
SubscribeAt == {i \in 1..Len(wire) : wire[i].op = "subscribe"}

\* A required field of the device configuration is missing.
MissingRequiredField ==
    \/ device_config.mqtt_config_topic_prefix = NULL
    \/ device_config.mqtt_uri = NULL
    \/ device_config.unique_id = NULL
    \/ device_config.name = NULL

\* C1: whatever add_component calls were made, the component count is at most
\* HAMQTT_DEVICE_MAX_COMPONENTS and nothing is stored outside the slots
\* 0..capacity-1.
C1_CountWithinCapacity ==
    /\ component_count <= HAMQTT_DEVICE_MAX_COMPONENTS
    /\ components[PastEnd] = Uninit

\* C2: of capacity+1 add_component calls with a component, each of the first
\* capacity returns ESP_OK and raises the count by one, and the last returns
\* ESP_ERR_NO_MEM and leaves the count and the stored components as they were.
C2_AddPastCapacityRejected ==
    (last_ret.op = "add" /\ last_ret.arg # NoComponent) =>
        /\ add_calls <= HAMQTT_DEVICE_MAX_COMPONENTS =>
              (last_ret.err = ESP_OK /\ component_count = add_calls)
        /\ add_calls = HAMQTT_DEVICE_MAX_COMPONENTS + 1 =>
              /\ last_ret.err = ESP_ERR_NO_MEM
              /\ component_count = HAMQTT_DEVICE_MAX_COMPONENTS
              /\ components[PastEnd] = Uninit

\* C3 (as stated): when connect has returned ESP_OK, the discovery publish
\* comes before every subscription issued through the same client since the
\* call was entered.
C3_DiscoveryBeforeSubscriptions ==
    call.outcome = "ok" =>
        \A i \in SubscribeAt : \A j \in DiscoveryAt :
            wire[i].client = wire[j].client => j < i

\* C3 (amended): the discovery document is published only by a connect call
\* whose wait found the connected signal set by a CONNECTED event delivered
\* since the call was entered; the subscriptions of that event are issued by
\* the event handler and are not ordered with the discovery publish.
C3_DiscoveryOnlyAfterConnectedEvent ==
    (app_pc = "publish" \/ DiscoveryAt # {}) =>
        /\ woken
        /\ conn_events >= 1
        /\ call.outcome \in {"running", "ok"}

\* A successful connect whose subscriptions were issued before its discovery
\* publish.
C3_SubscribedBeforeDiscovery ==
    /\ call.outcome = "ok"
    /\ \E i \in SubscribeAt : \E j \in DiscoveryAt :
          wire[i].client = wire[j].client /\ i < j

\* C4 (as stated): a connect that timed out returned an error other than the
\* generic failure code ESP_FAIL, published no discovery document, and the
\* connected signal was false when it returned.
C4_TimeoutDistinguishable ==
    call.outcome = "timeout" =>
        /\ last_ret.op = "connect"
        /\ last_ret.err \notin {ESP_OK, ESP_FAIL}
        /\ DiscoveryAt = {}
        /\ ~call.bits_ret

\* C4 (amended): a connect that timed out returned ESP_FAIL, the generic
\* failure code that a failed client start returns as well, published no
\* discovery document, and the connected signal was false when it returned.
C4_TimeoutReturnsFail ==
    call.outcome = "timeout" =>
        /\ last_ret = Ret("connect", NoComponent, ESP_FAIL)
        /\ DiscoveryAt = {}
        /\ ~call.bits_ret

\* A connect that has returned on timeout.
C4_TimedOut ==
    /\ call.outcome = "timeout"
    /\ app_pc = "idle"
    /\ last_ret.err = ESP_FAIL

\* C5: after connect has failed on timeout and until connect is called again,
\* the connected signal stays clear and nothing more (no "online" publish, no
\* subscription) is issued to the bus.
C5_StaysDisconnectedAfterTimeout ==
    call.outcome = "timeout" =>
        /\ ~event_bits
        /\ Len(wire) = call.wire_ret

\* C6: when connect has returned ESP_OK its wait found the connected signal
\* set, and it published the document it built exactly once, retained, with
\* qos 1, to <topic_prefix>/device/<device_unique_id>/config.
C6_OkPublishesDiscoveryOnce ==
    call.outcome = "ok" =>
        /\ woken
        /\ Cardinality(DiscoveryAt) = 1
        /\ \A j \in DiscoveryAt :
              /\ wire[j].topic = device_config.mqtt_config_topic_prefix \o S_device
                                   \o device_config.unique_id \o S_config
              /\ wire[j].json = doc
              /\ wire[j].qos = 1
              /\ wire[j].retain = 1

\* C7: a device created with a required field missing exists, and every
\* connect on it returns ESP_ERR_INVALID_STATE, creates and starts no client,
\* publishes nothing and leaves the client handle, the event group and the
\* connected signal as they were.
C7_InvalidConfigConnectRefused ==
    MissingRequiredField =>
        /\ last_ret.op = "connect" => last_ret.err = ESP_ERR_INVALID_STATE
        /\ call.outcome \in {"none", "build_failed"}
        /\ app_pc \notin {"start", "wait", "publish"}
        /\ clients = <<>>
        /\ mqtt_client = 0
        /\ mqtt_event_group = 0
        /\ ~event_bits
        /\ wire = <<>>

\* Connect was called more than once on a device with a missing field.
C7_RefusedTwice ==
    /\ MissingRequiredField
    /\ connect_calls >= 2
    /\ last_ret = Ret("connect", NoComponent, ESP_ERR_INVALID_STATE)

\* C8: when get_discovery_config of a registered component fails, the build
\* stops at that component and connect returns its error; no client is
\* created or started, no document is kept or published, nothing is issued to
\* the bus by the call, and the components after the failing one are not
\* asked for their configuration.
C8_ComponentFailureAbortsConnect ==
    call.failed_at > 0 =>
        /\ call.outcome = "build_failed"
        /\ last_ret = Ret("connect", NoComponent, ESP_ERR_NO_MEM)
        /\ app_pc \notin {"start", "wait", "publish"}
        /\ Len(clients) = call.clients0
        /\ mqtt_client = call.client0
        /\ doc = NoDoc
        /\ DiscoveryAt = {}
        /\ call.clients0 = 0 => wire = <<>>
        /\ connect_calls = 1 =>
              \A i \in 1..component_count :
                  (/\ i > call.failed_at
                   /\ \A k \in 1..call.failed_at : registered[k] # registered[i])
                  => /\ cst[registered[i]].topic = component_created.topic
                     /\ cst[registered[i]].sub0 = component_created.sub0

\* The first connect failed at the first of two distinct components.
C8_FailedAtFirstOfTwo ==
    /\ call.outcome = "build_failed"
    /\ call.failed_at = 1
    /\ connect_calls = 1
    /\ component_count = 2
    /\ components[0] # components[1]

\* C9: the "cmps" object of a built discovery document has exactly one member
\* per registered component, keyed by the component's unique id, in
\* registration order.
C9_CmpsKeyedInRegistrationOrder ==
    doc # NoDoc =>
        /\ Len(doc.cmps) = component_count
        /\ \A i \in 1..component_count :
              doc.cmps[i].k = component_config(registered[i]).unique_id

\* A document built for two distinct registered components.
C9_BuiltForTwo ==
    /\ doc # NoDoc
    /\ call.outcome = "ok"
    /\ component_count = 2
    /\ components[0] # components[1]

\* The components whose declared topic equals the name exactly, in
\* registration order, from position i on.
RECURSIVE ExactMatches(_, _)
ExactMatches(i, topic) ==
    IF i > component_count THEN <<>>
    ELSE LET c == registered[i]
             decl == hamqtt_component_get_subscribed_topics(c, cst[c])
             mine == IF \E j \in 1..Len(decl) : decl[j].st = "live" /\ decl[j].s = topic
                     THEN <<c>> ELSE <<>>
         IN  mine \o ExactMatches(i + 1, topic)

\* C10: handling an inbound message, the handler of a component is invoked
\* once for each declared topic of it that equals the inbound topic exactly,
\* and the handler of no other component; a message whose topic equals no
\* declared topic invokes no handler and no callback.
C10_RoutedByExactTopic ==
    (rx.n = 1 /\ \A c \in Pool : cst[c].sub0.st # "dangling") =>
        /\ rx.handled = ExactMatches(1, rx.topic)
        /\ ExactMatches(1, rx.topic) = <<>> => rx.pressed = <<>>

\* C11: an inbound message whose topic or payload is longer than
\* HAMQTT_CHAR_BUF_SIZE - 1 characters is dropped: no component handler is
\* invoked for it and no press callback runs, also when the first
\* HAMQTT_CHAR_BUF_SIZE - 1 characters equal a declared topic.
C11_OverlongDropped ==
    (rx.n = 1 /\ (Len(rx.topic) > HAMQTT_CHAR_BUF_SIZE - 1
                  \/ Len(rx.data) > HAMQTT_CHAR_BUF_SIZE - 1)) =>
        /\ rx.handled = <<>>
        /\ rx.pressed = <<>>

\* The topic a button's press command is expected on.
PressTopic(c) ==
    device_config.unique_id \o <<"/">> \o component_config(c).unique_id \o S_press

\* C12: a call of a button's message handler, the button having its command
\* topic derived, invokes the press callback once if the topic is
\* <device_unique_id>/<unique_id>/press and the payload is PRESS, both
\* exactly, and otherwise invokes nothing; the call changes no state of the
\* component and sends nothing.
C12_PressIffExactTopicAndPayload ==
    [][ (rx = NoRx /\ rx' # NoRx /\ Len(rx'.handled) = 1
         /\ IsButton(rx'.handled[1]) /\ cst[rx'.handled[1]].topic # NULL) =>
            LET c == rx'.handled[1]
            IN  /\ rx'.pressed = IF rx'.topic = PressTopic(c) /\ rx'.data = S_PRESS
                                 THEN <<c>> ELSE <<>>
                /\ cst' = cst
                /\ wire' = wire ]_vars

\* A button's handler has run the press callback.
C12_Pressed ==
    /\ rx.n = 1
    /\ rx.handled = <<"b1">>
    /\ rx.pressed = <<"b1">>
    /\ rx.topic = PressTopic("b1")
    /\ rx.data = S_PRESS

\* The publishes tick i of component c made: one of the value read, or none.
TickPublished(c, i) ==
    /\ Len(ticks[c][i].calls) = 1
    /\ ticks[c][i].calls[1].op = "publish"
    /\ ticks[c][i].calls[1].data = IF ticks[c][i].read THEN S_ON ELSE S_OFF

\* Tick i of component c follows the announce-then-on-change rule.
TickOnChange(c, i) ==
    IF i = 1 \/ ticks[c][i].read # ticks[c][i - 1].read
    THEN TickPublished(c, i)
    ELSE ticks[c][i].calls = <<>>

\* C13: for a binary sensor without the force-update flag, the first tick
\* issues one publish of the value it read, also when that value is false,
\* and each later tick issues one publish if the value it read differs from
\* the value the tick before read, and none otherwise.
C13_PublishOnFirstAndOnChange ==
    \A c \in DOMAIN ticks :
        (~IsButton(c) /\ ~component_config(c).force_update) =>
            \A i \in 1..Len(ticks[c]) : TickOnChange(c, i)

\* A sensor without the flag read false, false, true: it published OFF, then
\* nothing, then ON.
C13_AnnouncedFalseThenChanged ==
    /\ Len(ticks["s1"]) = 3
    /\ ~ticks["s1"][1].read /\ TickPublished("s1", 1)
    /\ ~ticks["s1"][2].read /\ ticks["s1"][2].calls = <<>>
    /\ ticks["s1"][3].read /\ TickPublished("s1", 3)

\* C14 (as stated): for a binary sensor whose force-update flag is set, every
\* tick publishes the value it read.
C14_EveryTickPublishes ==
    \A c \in DOMAIN ticks :
        (~IsButton(c) /\ component_config(c).force_update) =>
            \A i \in 1..Len(ticks[c]) : TickPublished(c, i)

\* C14 (amended): for a binary sensor whose force-update flag is set, ticks
\* publish by the rule of a sensor without the flag: the first tick publishes
\* the value it read and a later tick publishes if and only if the value it
\* read differs from the value the tick before read.
C14_FlagDoesNotForcePublish ==
    \A c \in DOMAIN ticks :
        (~IsButton(c) /\ component_config(c).force_update) =>
            \A i \in 1..Len(ticks[c]) : TickOnChange(c, i)

\* A sensor with the flag set read true twice and published once.
C14_UnchangedNotPublished ==
    /\ component_config("s2").force_update
    /\ Len(ticks["s2"]) >= 2
    /\ ticks["s2"][1].read /\ TickPublished("s2", 1)
    /\ ticks["s2"][2].read /\ ticks["s2"][2].calls = <<>>

\* C15: while no connect call has succeeded (none made, or the one made
\* failed or timed out), the connection handle is absent, and a call of
\* hamqtt_device_publish_availability returns ESP_ERR_INVALID_STATE and
\* publishes nothing.
C15_NotConnectedRefused ==
    (connect_calls <= 1 /\ call.outcome # "ok") =>
        /\ mqtt_client = 0
        /\ app_pc = "availability" =>
              /\ avail.err = ESP_ERR_INVALID_STATE
              /\ avail.calls = <<>>

\* One qos-1 subscription for the command topic of every registered button
\* from position i on, in registration order.
RECURSIVE ExpectedSubscriptions(_)
ExpectedSubscriptions(i) ==
    IF i > component_count THEN <<>>
    ELSE LET c == registered[i]
             mine == IF IsButton(c)
                     THEN <<SubscribeCall(mqtt_client, LivePtr(PressTopic(c)))>>
                     ELSE <<>>
         IN  mine \o ExpectedSubscriptions(i + 1)

\* C16: handling a CONNECTED event, the device sets the connected signal and
\* issues one qos-1 subscription for every declared topic of every registered
\* component, in registration order, whatever number of disconnections and
\* connections came before.
C16_ConnectedResubscribesAll ==
    [][ /\ (evt_pc = "idle" /\ evt_pc' = "online") => event_bits'
        /\ (evt_pc = "subscribe" /\ evt_pc' # "subscribe") =>
              /\ ~crashed'
              /\ wire' = wire \o ExpectedSubscriptions(1) ]_vars

\* The retained qos-1 "online" publish on <device_unique_id>/availability.
OnlinePublish ==
    [ op |-> "publish", client |-> mqtt_client,
      topic |-> device_config.unique_id \o S_availability, ptr |-> "live",
      data |-> S_online, json |-> NoDoc, qos |-> 1, retain |-> 1 ]

C18_DisconnectedOnlyClearsSignal ==
    [][ (\E n \in 1..Len(clients) :
            /\ Len(clients') = Len(clients)
            /\ clients[n].connected /\ ~clients'[n].connected) =>
          /\ ~event_bits'
          /\ wire' = wire
          /\ Len(clients') = Len(clients)
          /\ \A m \in 1..Len(clients) : clients'[m].started = clients[m].started
          /\ mqtt_client' = mqtt_client
          /\ components' = components
          /\ component_count' = component_count
          /\ cst' = cst
          /\ evt_pc = "idle" /\ evt_pc' = "idle"
          /\ rx' = rx ]_vars

\* A client that had connected is disconnected and the signal is clear.
C18_Disconnected ==
    /\ conn_events >= 1
    /\ ~event_bits
    /\ evt_pc = "idle"
    /\ \E n \in 1..Len(clients) : clients[n].started /\ ~clients[n].connected
    /\ \A n \in 1..Len(clients) : ~clients[n].connected

C20_RebuildIsIdentical ==
    [][ (connect_calls' = connect_calls + 1 /\ doc # NoDoc /\ doc' # NoDoc) =>
          /\ doc' = doc
          /\ availability_topic' = availability_topic
          /\ \A c \in DOMAIN cst : cst'[c].topic = cst[c].topic ]_vars

\* The second connect call has built the document again, for a device with
\* a button and a sensor, after the first call built it.
C20_BuiltTwice ==
    /\ connect_calls = 2
    /\ call.clients0 = 1
    /\ app_pc = "start"
    /\ doc # NoDoc
    /\ component_count = 2
    /\ \E i, j \in 1..component_count :
          /\ IsButton(registered[i]) /\ cst[registered[i]].topic # NULL
          /\ ~IsButton(registered[j]) /\ cst[registered[j]].topic # NULL

\* C23: hamqtt_device_add_component called with no component returns
\* ESP_ERR_INVALID_ARG, which is not the capacity error, and leaves the
\* component count and the stored components as they were, whatever the
\* count is.
C23_NullComponentRejected ==
    [][ (last_ret' # last_ret /\ last_ret'.op = "add" /\ last_ret'.arg = NoComponent) =>
          /\ last_ret'.err = ESP_ERR_INVALID_ARG
          /\ ESP_ERR_INVALID_ARG # ESP_ERR_NO_MEM
          /\ components' = components
          /\ component_count' = component_count ]_vars

\* add_component was called with no component on a device that had accepted
\* every component up to the one past its capacity.
C23_NullAddedWhenFull ==
    /\ last_ret = Ret("add", NoComponent, ESP_ERR_INVALID_ARG)
    /\ component_count = HAMQTT_DEVICE_MAX_COMPONENTS + 1
    /\ connect_calls = 0

\* C21: a call of hamqtt_device_loop calls the update of every registered
\* component once, in registration order, with the device's client handle,
\* and leaves the registry, the client handle, the clients and the connected
\* signal as they were.
C21_LoopTicksEveryComponentOnce ==
    [][ (app_pc = "idle" /\ loop'.n = 1) =>
          /\ ~crashed'
          /\ Len(loop'.ticked) = component_count
          /\ \A i \in 1..Len(loop'.ticked) :
                /\ i <= component_count
                /\ loop'.ticked[i].c = registered[i]
                /\ loop'.ticked[i].client = mqtt_client
          /\ components' = components
          /\ component_count' = component_count
          /\ mqtt_client' = mqtt_client
          /\ clients' = clients
          /\ event_bits' = event_bits ]_vars

\* The calling task is scheduled and the tick count of xEventGroupWaitBits
\* runs out: a connect call that can take its next step takes it.  Nothing is
\* assumed of the events the bus client delivers.
SpecLive ==
    /\ Spec
    /\ WF_vars(\E ok \in BOOLEAN : ConnectStart(ok))
    /\ WF_vars(ConnectWaitConnected \/ ConnectWaitTimeout)
    /\ WF_vars(ConnectPublish)

\* C22: every connect call that was entered returns in the end, its wait
\* ending by the connected signal or by the timeout, whatever events the bus
\* client delivers.
C22_ConnectReturns ==
    (call.outcome \in {"running", "crashed"}) ~>
        (call.outcome \in {"ok", "timeout", "start_failed", "build_failed"})

\* C24: a call of a component's update, binary sensor or button, issues at
\* most one publish, in every state of the component.
C24_AtMostOnePublishPerTick ==
    \A c \in DOMAIN ticks :
        \A i \in 1..Len(ticks[c]) : Len(ticks[c][i].calls) <= 1

\* A sensor with its state topic derived was ticked MaxTicks times on a
\* present client, the value read changing each time: one publish per tick.
C24_PublishedEachTick ==
    /\ Len(ticks["s1"]) = MaxTicks
    /\ \A i \in 1..MaxTicks :
          /\ Len(ticks["s1"][i].calls) = 1
          /\ ticks["s1"][i].calls[1].client = 1
          /\ ticks["s1"][i].calls[1].ptr = "live"
          /\ ticks["s1"][i].read = (i % 2 = 1)

\* C25: get_discovery_config of a binary sensor or of a button whose
\* configuration lacks the name or the unique id returns
\* ESP_ERR_INVALID_STATE, adds no member to the object it was given, and
\* leaves the component's derived topic and subscribed-topic list as they
\* were.
C25_IncompleteConfigRefused ==
    [][ (/\ last_ret'.op = "get_discovery_config"
         /\ ticks' = ticks /\ rx' = rx
         /\ (\/ component_config(last_ret'.arg).name = NULL
             \/ component_config(last_ret'.arg).unique_id = NULL)) =>
          /\ last_ret'.err = ESP_ERR_INVALID_STATE
          /\ doc'.cmps = <<[k |-> RootKey, v |-> cJSON_CreateObject]>>
          /\ cst' = cst ]_vars

\* get_discovery_config was refused on a button whose unique id was cleared
\* after its command topic had been derived: the topic is still there.
C25_RefusedWithTopicDerived ==
    /\ last_ret = Ret("get_discovery_config", "b3", ESP_ERR_INVALID_STATE)
    /\ component_config("b3").unique_id = NULL
    /\ cst["b3"].topic # NULL
    /\ cst["b3"].sub0 = LivePtr(cst["b3"].topic)
    /\ doc.cmps = <<[k |-> RootKey, v |-> cJSON_CreateObject]>>

\* C26: with the statements of a component's update and of its message
\* handler interleaved, each has the effect it has run alone at the point
\* where it ends: the handler invokes the press callback as it would with
\* no update under way, and changes nothing; the update publishes as it
\* decided when it read the value, changes nothing the handler reads and
\* nothing of the message being handled; so the publishes follow the
\* announce-then-on-change rule and a button's update publishes nothing,
\* whatever the interleaving.
C26_UpdateAndHandlerDoNotInterfere ==
    [][ LET c == components[0]
        IN  /\ (inflight.msg.n = 1 /\ inflight'.msg.n = 0) =>
                  /\ ~crashed'
                  /\ cst' = cst
                  /\ ticks' = ticks
                  /\ inflight'.tick = inflight.tick
                  /\ rx'.pressed = hamqtt_component_handle_mqtt_message(
                                       c, cst[c], inflight.msg.topic, inflight.msg.data)
            /\ (inflight.tick.n = 1 /\ inflight'.tick.n = 0) =>
                  /\ inflight.tick.publish = (Len(ticks'[c]) > 0
                         /\ ticks'[c][Len(ticks'[c])].calls # <<>>)
                  /\ cst'[c].topic = cst[c].topic
                  /\ cst'[c].sub0 = cst[c].sub0
                  /\ rx' = rx
                  /\ inflight'.msg = inflight.msg
            /\ \A i \in 1..Len(ticks'[c]) :
                  IF IsButton(c) THEN ticks'[c][i].calls = <<>>
                  ELSE Len(ticks'[c][i].calls) = 1
                           <=> (i = 1 \/ ticks'[c][i].read # ticks'[c][i - 1].read) ]_vars

\* A button with its topic derived: its handler was entered for a PRESS on
\* its topic, an update has run to its end since, and another is under way.
C26_UpdateInsideHandler ==
    /\ components[0] = "b1"
    /\ inflight.msg.n = 1
    /\ inflight.msg.present
    /\ inflight.msg.data = S_PRESS
    /\ inflight.msg.topic = cst["b1"].topic
    /\ Len(ticks["b1"]) > inflight.msg.t0
    /\ inflight.tick.n = 1

\* The positions of wire that hold an "online" publish.
OnlineAt == {j \in 1..Len(wire) : wire[j].op = "publish" /\ wire[j].data = S_online}

\* C27: the discovery document is published only by the last step of a
\* connect call; handling a CONNECTED event, the first of a client or one
\* after a disconnection, publishes "online" and subscribes and publishes no
\* discovery document.
C27_DiscoveryOnlyByConnect ==
    [][ /\ (\E i \in (Len(wire) + 1)..Len(wire') : IsDiscovery(wire'[i])) =>
              /\ app_pc = "publish" /\ app_pc' = "idle"
              /\ evt_pc' = evt_pc
        /\ (evt_pc = "online" /\ evt_pc' = "subscribe") =>
              /\ Len(wire') = Len(wire) + 1
              /\ wire'[Len(wire')].data = S_online
              /\ ~IsDiscovery(wire'[Len(wire')])
        /\ (evt_pc = "subscribe" /\ evt_pc' # "subscribe") =>
              \A i \in (Len(wire) + 1)..Len(wire') : wire'[i].op = "subscribe" ]_vars

\* After a connect call that returned ESP_OK its client was disconnected and
\* connected again: "online" was published twice and a topic subscribed
\* twice, the discovery document published once, before the second "online".
C27_ReconnectedWithoutDiscovery ==
    /\ call.outcome = "ok"
    /\ connect_calls = 1
    /\ conn_events = 2
    /\ evt_pc = "idle"
    /\ Cardinality(OnlineAt) = 2
    /\ Cardinality(SubscribeAt) = 2
    /\ Cardinality(DiscoveryAt) = 1
    /\ \E j \in OnlineAt : \A d \in DiscoveryAt : d < j

\* The topic a binary sensor's state is expected on.
StateTopic(c) ==
    device_config.unique_id \o <<"/">> \o component_config(c).unique_id
        \o <<"/","s","t","a","t","e">>

\* C28: every publish a binary sensor issues on a present client in a call
\* of hamqtt_device_loop is on <device_unique_id>/<unique_id>/state, with
\* qos 1 and retain set, and its payload is ON if the value just read from
\* the state accessor is true and OFF if it is false.
C28_SensorPublishesOnStateTopic ==
    \A i \in 1..Len(loop.ticked) :
        LET t == loop.ticked[i]
        IN  (~IsButton(t.c) /\ t.client # 0) =>
                \A k \in 1..Len(t.calls) :
                    /\ t.calls[k].op = "publish"
                    /\ t.calls[k].ptr = "live"
                    /\ t.calls[k].topic = StateTopic(t.c)
                    /\ t.calls[k].qos = 1
                    /\ t.calls[k].retain = 1
                    /\ t.calls[k].data = IF t.read THEN S_ON ELSE S_OFF

\* The topic derived for a component: the press topic of a button, the state
\* topic of a binary sensor.
DerivedTopic(c) == IF IsButton(c) THEN PressTopic(c) ELSE StateTopic(c)

\* The registered components are component objects with pairwise distinct
\* unique ids.
DistinctUniqueIds ==
    /\ \A i \in 1..component_count : registered[i] \in Pool
    /\ \A i, j \in 1..component_count :
           i # j => component_config(registered[i]).unique_id
                        # component_config(registered[j]).unique_id

\* C29: while the registered components have pairwise distinct unique ids,
\* the topics derived for them are pairwise distinct and none is the
\* availability topic, and an inbound message invokes the handler of at most
\* one component, the one whose derived topic is the topic of the message.
C29_DistinctIdsRouteToOwner ==
    DistinctUniqueIds =>
        /\ \A i, j \in 1..component_count :
               (i # j /\ cst[registered[i]].topic # NULL) =>
                   /\ cst[registered[i]].topic # cst[registered[j]].topic
                   /\ cst[registered[i]].topic # availability_topic
        /\ rx.n = 1 =>
               /\ Len(rx.handled) <= 1
               /\ \A k \in 1..Len(rx.handled) : DerivedTopic(rx.handled[k]) = rx.topic

\* The handler invocations the declared topics of a component give for a
\* topic: one for each declared topic that equals it.
InvocationsOf(c, topic) ==
    LET decl == hamqtt_component_get_subscribed_topics(c, cst[c])
        n == Cardinality({j \in 1..Len(decl) : decl[j].st = "live" /\ decl[j].s = topic})
    IN  [k \in 1..n |-> c]

\* The invocations for a topic over the registry, in registration order, from
\* position i on.
RECURSIVE InvocationsFrom(_, _)
InvocationsFrom(i, topic) ==
    IF i > component_count THEN <<>>
    ELSE InvocationsOf(registered[i], topic) \o InvocationsFrom(i + 1, topic)

\* C30: when two or more registered components declare the topic an inbound
\* message arrives on, the message invokes the handler of each of them, in
\* registration order, once for each declared topic of it that equals the
\* topic of the message, and the handler of no other component.
C30_SharedTopicInvokesEach ==
    LET declared == InvocationsFrom(1, rx.topic)
    IN  (rx.n = 1 /\ Len(rx.topic) < HAMQTT_CHAR_BUF_SIZE
         /\ \E i, j \in 1..Len(declared) : i < j) =>
            rx.handled = declared

\* Two buttons created with the same unique id are registered, b4 first, and
\* one PRESS message on their topic has invoked the handler and the press
\* callback of both, b4's first.
C30_BothButtonsInvoked ==
    /\ rx.n = 1
    /\ component_count = 2
    /\ registered = <<"b4", "b1">>
    /\ rx.handled = <<"b4", "b1">>
    /\ rx.pressed = <<"b4", "b1">>

\* C31: whatever calls were made on a component, discovery builds repeated
\* among them, at most one topic string allocated for it is live, that one
\* is the string its topic field points to (none is left without an owner),
\* and once the component is destroyed none is live.
C31_AtMostOneTopicBlock ==
    \A c \in Objects :
        /\ cst[c].blocks \in {0, 1}
        /\ cst[c].blocks = 1 <=> (~cst[c].freed /\ cst[c].topic # NULL)
        /\ cst[c].freed => cst[c].blocks = 0

\* A button whose second build failed on its allocation after the first had
\* derived the topic, and which has then been destroyed.
C31_DestroyedAfterRebuild ==
    /\ cst["b1"].freed
    /\ cst["b1"].sub0.st = "dangling"
    /\ cst["b1"].blocks = 0
    /\ last_ret = Ret("destroy", "b1", NoResult)

\* C32: a binary sensor reports no subscribed topic, and a call of its
\* message handler changes no component, invokes no callback and sends
\* nothing; a call of a button's update sends nothing and changes no
\* component.
C32_SensorOutputOnlyButtonInputOnly ==
    [][ /\ \A c \in Objects :
               ~IsButton(c) =>
                   /\ hamqtt_component_get_subscribed_topics(c, cst[c]) = <<>>
                   /\ hamqtt_component_get_subscribed_topics(c, cst'[c]) = <<>>
        /\ (rx = NoRx /\ rx' # NoRx /\ ~IsButton(rx'.handled[1])) =>
               /\ cst' = cst
               /\ rx'.pressed = <<>>
               /\ wire' = wire
               /\ ticks' = ticks
        /\ \A c \in Objects :
               (IsButton(c) /\ ticks'[c] # ticks[c]) =>
                   /\ Len(ticks'[c]) = Len(ticks[c]) + 1
                   /\ ticks'[c][Len(ticks'[c])].calls = <<>>
                   /\ cst' = cst
                   /\ wire' = wire ]_vars

\* The handler of a binary sensor whose state topic is derived and whose
\* state has been announced is being called with the payload PRESS.
C32_SensorHandlerCalled ==
    /\ rx.n = 1
    /\ rx.handled = <<"s1">>
    /\ rx.data = S_PRESS
    /\ cst["s1"].topic # NULL
    /\ cst["s1"].has_sent_state
    /\ Len(ticks["s1"]) = 1

\* The bus clients that are started with the device's event handler
\* registered (connect registers the handler on every client it creates).
StartedClients == {n \in 1..Len(clients) : clients[n].started}

\* C33: whatever connect calls were made on the device, at most one bus
\* client is started with the device's event handler registered, so that
\* the events the device handles come from one connection: at most one
\* client is connected to the broker.
C33_AtMostOneStartedClient ==
    /\ Cardinality(StartedClients) <= 1
    /\ Cardinality({n \in 1..Len(clients) : clients[n].connected}) <= 1

\* C34: while the device subscribes after a CONNECTED event or routes an
\* inbound message, every topic pointer every registered component reports
\* points to a string the component currently owns: none is absent and none
\* points to a released string.
C34_ReportedTopicsOwned ==
    (evt_pc \in {"subscribe", "data"}) =>
        \A i \in 1..component_count :
            registered[i] \in Pool =>
                LET decl == hamqtt_component_get_subscribed_topics(
                                registered[i], cst[registered[i]])
                IN  \A j \in 1..Len(decl) : decl[j].st = "live"

\* C35: after every update of a binary sensor that has a state accessor,
\* has_sent_state is set and previous_state is the value the update read,
\* whatever handle was passed; has_sent_state is never cleared; and an
\* update reading the value recorded as sent publishes nothing, also when
\* that value was recorded by an update made without a handle.
C35_SentRecordedWhateverTheHandle ==
    [][ \A c \in Objects :
            ~IsButton(c) =>
                /\ cst[c].has_sent_state => cst'[c].has_sent_state
                /\ ticks'[c] # ticks[c] =>
                       LET t == ticks'[c][Len(ticks'[c])]
                       IN  /\ has_callback(c) =>
                                  /\ cst'[c].has_sent_state
                                  /\ cst'[c].previous_state = t.read
                           /\ (cst[c].has_sent_state /\ t.read = cst[c].previous_state) =>
                                  t.calls = <<>> ]_vars

\* A sensor read true by an update made with no handle, which called publish
\* on the absent handle, and read true again by the next update, which
\* published nothing.
C35_ValueReadWithoutHandleNotRepublished ==
    /\ components[0] = "s1"
    /\ Len(ticks["s1"]) = 2
    /\ ticks["s1"][1].read /\ Len(ticks["s1"][1].calls) = 1
    /\ ticks["s1"][1].calls[1].client = 0
    /\ ticks["s1"][2].read /\ ticks["s1"][2].calls = <<>>
    /\ cst["s1"].has_sent_state /\ cst["s1"].previous_state
    /\ cst["s1"].topic # NULL

\* C36: an update of a binary sensor created without a state accessor
\* publishes nothing and leaves has_sent_state and previous_state as they
\* were; a call of the message handler of a button created without a press
\* callback invokes nothing, also with its topic and PRESS; and a button
\* whose command topic is not derived invokes nothing on any message.
C36_MissingCallbackIsNoOp ==
    [][ /\ \A c \in CallbackObjects :
               (~IsButton(c) /\ c \in Uninjected /\ ticks'[c] # ticks[c]) =>
                   /\ ticks'[c][Len(ticks'[c])].calls = <<>>
                   /\ cst'[c].has_sent_state = cst[c].has_sent_state
                   /\ cst'[c].previous_state = cst[c].previous_state
                   /\ cst' = cst
        /\ (rx = NoRx /\ rx' # NoRx /\ IsButton(rx'.handled[1])) =>
               LET c == rx'.handled[1]
               IN  /\ c \in Uninjected => rx'.pressed = <<>>
                   /\ cst[c].topic = NULL => rx'.pressed = <<>>
                   /\ cst' = cst ]_vars

\* The handler of the button created without a press callback is being
\* called with its derived command topic and PRESS, and nothing is invoked.
C36_PressWithoutCallback ==
    /\ rx.n = 1
    /\ rx.handled = <<"b5">>
    /\ cst["b5"].topic # NULL
    /\ rx.topic = cst["b5"].topic
    /\ rx.data = S_PRESS
    /\ rx.pressed = <<>>

====
